---------------------------- MODULE Spec2Model ----------------------------
(***************************************************************************)
(* A model of netd's NetworkController (server/NetworkController.cpp): the *)
(* registry of logical networks, the interfaces they hold, the default     *)
(* network, the per-uid permissions and the access / selection policy.     *)
(*                                                                         *)
(* Every public method takes mRWLock at its boundary, so each method is    *)
(* one atomic action.  Kernel and route-controller calls made inside a     *)
(* method (Network::addInterface, PhysicalNetwork::addAsDefault, ...) may  *)
(* fail; their outcome is an input of the action.                          *)
(***************************************************************************)
EXTENDS Integers, Sequences, FiniteSets, TLC

(***************************************************************************)
(* Bounds of the model.                                                    *)
(***************************************************************************)
\* Number of netIds of the general range [MIN_NET_ID, ...] the callers use.
NumUserNets == 2
\* Interfaces are named by their ifindex, 1..MaxIface.
MaxIface == 1
\* Application uids FIRST_APPLICATION_UID+1 .. FIRST_APPLICATION_UID+NumAppUids.
NumAppUids == 2
\* Longest netId list handed to setPermissionForNetworks / setNetworkAllowlist.
MaxListLen == 2
\* Rules a parent chain holds before the first install, at most.
MaxPriorRules == 2
\* createChildChains calls on one parent chain, at most.
MaxInstalls == 2
\* Threads that call the registry in parallel.
NumThreads == 2
\* Interfaces the default network holds when fallthrough routes are changed, at most.
MaxDefaultIfaces == 2
\* Calls a caller's record holds, at most.
MaxCalls == 5
\* Ids of the OEM range that are free when the allocator's callers start.
FreeOemIds == 3

(***************************************************************************)
(* Program constants.                                                      *)
(***************************************************************************)
MIN_NET_ID == 100
MAX_NET_ID == 65535
NETID_UNSET == 0
LOCAL_NET_ID == 99
DUMMY_NET_ID == 51
UNREACHABLE_NET_ID == 52
MIN_OEM_ID == 1
MAX_OEM_ID == 50

PERMISSION_NONE == 0
PERMISSION_NETWORK == 1
PERMISSION_SYSTEM == 3
Permissions == {PERMISSION_NONE, PERMISSION_NETWORK, PERMISSION_SYSTEM}

FIRST_APPLICATION_UID == 10000
AID_SYSTEM == 1000
AID_VPN == 1016
\* INVALID_UID is (uid_t)-1, the largest uid_t; the largest integer of the
\* model checker stands for it.
INVALID_UID == 2147483647

SUB_PRIORITY_HIGHEST == 0
SUB_PRIORITY_LOWEST == 998
SUB_PRIORITY_NO_DEFAULT == 999

\* NativeVpnType: SERVICE .. OEM_LEGACY are the valid values.
VPN_SERVICE == 1
VPN_OEM_LEGACY == 5

\* Return codes.  OK is 0; the others stand for the negated errno values.
OK == "0"
ENONET == "-ENONET"
EINVAL == "-EINVAL"
EEXIST == "-EEXIST"
EBUSY == "-EBUSY"
ESRCH == "-ESRCH"
ENOENT == "-ENOENT"
ENODEV == "-ENODEV"
EPERM == "-EPERM"
EACCES == "-EACCES"
EREMOTEIO == "-EREMOTEIO"
\* Errors a kernel / route-controller call can come back with.
KernelErrs == {"-EIO", "-ENOBUFS"}
KernelResults == {OK} \cup KernelErrs

(***************************************************************************)
(* Input sets.                                                             *)
(***************************************************************************)
UserNetIds == MIN_NET_ID .. (MIN_NET_ID + NumUserNets - 1)
FixedNetIds == {LOCAL_NET_ID, DUMMY_NET_ID, UNREACHABLE_NET_ID}
NetIdArgs == {NETID_UNSET} \cup FixedNetIds \cup UserNetIds
Ifaces == 1 .. MaxIface
AppUids == (FIRST_APPLICATION_UID + 1) .. (FIRST_APPLICATION_UID + NumAppUids)
UidArgs == {INVALID_UID, AID_SYSTEM} \cup AppUids

VARIABLES
    mNetworks,            \* netId -> Network
    mDefaultNetId,
    mUsers,               \* uid -> Permission (partial)
    mProtectableUsers,    \* set of <<uid, netId>>
    mIfindexToLastNetId,  \* ifindex -> netId (partial)
    mAddressToIfindices,  \* address -> set of ifindex (partial)
    nameservers,          \* netIds for which resolv_has_nameservers() holds
    tcpSocketMonitor,     \* last signal sent to gCtls->tcpSocketMonitor
    last,                 \* the last call: its name and what it returned
    iptables,             \* the kernel's packet-filter chains: one family, one parent
    installs,             \* createChildChains calls made so far
    pc,                   \* where Controllers::init() stands
    initCalls,            \* the calls init() has made, in order
    exitStatus,           \* <<>> while the process runs, <<code>> once it has exited
    mRWLock,              \* who holds the lock of the registry
    threads,              \* thread -> the call it is in and where it stands
    committed             \* the registry as the last completed mutator left it

vars == <<mNetworks, mDefaultNetId, mUsers, mProtectableUsers, mIfindexToLastNetId,
          mAddressToIfindices, nameservers, tcpSocketMonitor, last,
          iptables, installs, pc, initCalls, exitStatus, mRWLock, threads, committed>>

\* The state of the callers' threads.
threading == <<mRWLock, threads, committed>>

NoThread == 0
Unlocked == [writer |-> NoThread, readers |-> {}]

\* One caller, whose calls run one after the other.
NoThreads ==
    /\ mRWLock = Unlocked
    /\ threads = <<>>
    /\ committed = <<>>

\* The state of startup: the packet-filter chains and the init sequence.
startup == <<iptables, installs, pc, initCalls, exitStatus>>

\* Startup is over and left no trace the registry depends on.
StartupDone ==
    /\ iptables = <<>>
    /\ installs = 0
    /\ pc = "done"
    /\ initCalls = <<>>
    /\ exitStatus = <<>>

registry == <<mNetworks, mDefaultNetId, mUsers, mProtectableUsers, mIfindexToLastNetId,
              mAddressToIfindices>>

Min(S) == CHOOSE x \in S : \A y \in S : x <= y

(***************************************************************************)
(* Network and its variants (Network.cpp, PhysicalNetwork.cpp,             *)
(* VirtualNetwork.cpp, LocalNetwork.cpp, ...).                             *)
(***************************************************************************)
NewNetwork(type, permission, secure) ==
    [type |-> type, interfaces |-> {}, permission |-> permission, isDefault |-> FALSE,
     secure |-> secure, uidRanges |-> {}, allowedUids |-> {}]

isPhysical(net) == net.type = "Physical"
isVirtual(net) == net.type = "Virtual"
isUnreachable(net) == net.type = "Unreachable"
canAddUsers(net) == net.type \in {"Physical", "Virtual", "Unreachable"}
hasInterface(net, iface) == iface \in net.interfaces

\* A kernel call made for the interfaces of a network has nothing to do, and so
\* cannot fail, when the network holds no interface.
KernelOutcome(net, k) == IF net.interfaces = {} THEN OK ELSE k

\* PhysicalNetwork::addAsDefault / removeAsDefault: the flag changes only when
\* the kernel accepted the rules of every interface.
addAsDefault(net, k) ==
    IF KernelOutcome(net, k) = OK THEN [net EXCEPT !.isDefault = TRUE] ELSE net

removeAsDefault(net, k) ==
    IF KernelOutcome(net, k) = OK THEN [net EXCEPT !.isDefault = FALSE] ELSE net

\* PhysicalNetwork::setPermission
setPermission(net, permission, k) ==
    IF KernelOutcome(net, k) = OK THEN [net EXCEPT !.permission = permission] ELSE net

(***************************************************************************)
(* Registry helpers.                                                       *)
(***************************************************************************)
isValidNetworkLocked(netId) == netId \in DOMAIN mNetworks

\* A test that takes every network of the registry for a VPN.
isVirtualNetworkLocked_anyNetwork(netId) == isValidNetworkLocked(netId)

isVirtualNetworkLocked(netId) == isValidNetworkLocked(netId) /\ isVirtual(mNetworks[netId])

\* A lookup that finds no holder.
getNetworkForInterfaceLocked_noHolder(iface) == NETID_UNSET

\* mNetworks is a std::map: iteration is in increasing netId order.
getNetworkForInterfaceLocked(iface) ==
    LET holders == {n \in DOMAIN mNetworks : hasInterface(mNetworks[n], iface)}
    IN  IF holders = {} THEN NETID_UNSET ELSE Min(holders)

\* RouteController::getIfIndex: interfaces are named by their index.
getIfIndex(iface) == iface

updateTcpSocketMonitorPolling(networks) ==
    IF \E n \in DOMAIN networks : isPhysical(networks[n]) /\ n >= MIN_NET_ID
    THEN "resumePolling" ELSE "suspendPolling"

\* The result of modifyFallthroughLocked(vpnNetId, add); k is the outcome of
\* the route-controller calls it makes, one per interface of the default network.
modifyFallthroughLocked(k) ==
    IF mDefaultNetId = NETID_UNSET THEN OK
    ELSE IF ~isValidNetworkLocked(mDefaultNetId) THEN ESRCH
    ELSE IF ~isPhysical(mNetworks[mDefaultNetId]) THEN EINVAL
    ELSE KernelOutcome(mNetworks[mDefaultNetId], k)

Returned(op, ret) == last' = [op |-> op, ret |-> ret]

(***************************************************************************)
(* Uid ranges, permissions and protection.                                 *)
(***************************************************************************)
\* A uid range attached to a network is <<subPriority, start, stop>>.
rangesOfUser(net, uid) == {r \in net.uidRanges : r[2] <= uid /\ uid <= r[3]}

\* Network::appliesToUser(uid, &subPriority): whether a range holds uid ...
appliesToUser(net, uid) == rangesOfUser(net, uid) # {}

\* ... and the subPriority it writes: the smallest one of the ranges holding uid.
subPriorityOfUser(net, uid) == Min({r[1] : r \in rangesOfUser(net, uid)})

\* Network::isUidAllowed: an allowlist entry is <<start, stop>>; the empty
\* allowlist admits every uid.
networkIsUidAllowed(net, uid) ==
    net.allowedUids = {} \/ \E r \in net.allowedUids : r[1] <= uid /\ uid <= r[2]

\* a & b on the two permission bits.
BitAnd(a, b) == (a % 2) * (b % 2) + 2 * ((a \div 2) % 2) * ((b \div 2) % 2)

getPermissionForUserLocked(uid) ==
    IF uid \in DOMAIN mUsers THEN mUsers[uid]
    ELSE IF uid < FIRST_APPLICATION_UID THEN PERMISSION_SYSTEM ELSE PERMISSION_NONE

\* A lookup that honours wildcard grants only.
isProtectableLocked_wildcardOnly(uid, netId) == <<uid, NETID_UNSET>> \in mProtectableUsers

isProtectableLocked(uid, netId) ==
    <<uid, NETID_UNSET>> \in mProtectableUsers \/ <<uid, netId>> \in mProtectableUsers

\* A grant check that admits every uid.
canProtectLocked_always(uid, netId) == TRUE

canProtectLocked(uid, netId) ==
    IF BitAnd(getPermissionForUserLocked(uid), PERMISSION_SYSTEM) = PERMISSION_SYSTEM
    THEN TRUE
    ELSE isProtectableLocked(uid, netId)

\* The first Virtual network, in netId order, that applies to uid; NETID_UNSET
\* stands for nullptr.
getVirtualNetworkForUserLocked(uid) ==
    LET vpns == {n \in DOMAIN mNetworks :
                    isVirtual(mNetworks[n]) /\ appliesToUser(mNetworks[n], uid)}
    IN  IF vpns = {} THEN NETID_UNSET ELSE Min(vpns)

\* The netIds of S in increasing order: the iteration order of mNetworks.
RECURSIVE Ascending(_)
Ascending(S) == IF S = {} THEN << >> ELSE <<Min(S)>> \o Ascending(S \ {Min(S)})

\* The loop of getPhysicalOrUnreachableNetworkForUserLocked from position i
\* on; best is [netId, subPriority], netId = NETID_UNSET standing for nullptr.
RECURSIVE bestNetworkLoop(_, _, _, _)
bestNetworkLoop(order, i, uid, best) ==
    IF i > Len(order) THEN best
    ELSE LET network == mNetworks[order[i]]
         IN  IF ~isPhysical(network) /\ ~isUnreachable(network)
             THEN bestNetworkLoop(order, i + 1, uid, best)
             ELSE IF ~appliesToUser(network, uid)
             THEN bestNetworkLoop(order, i + 1, uid, best)
             ELSE IF subPriorityOfUser(network, uid) = SUB_PRIORITY_NO_DEFAULT
             THEN bestNetworkLoop(order, i + 1, uid, best)
             ELSE IF subPriorityOfUser(network, uid) < best.subPriority
             THEN bestNetworkLoop(order, i + 1, uid,
                                  [netId |-> order[i],
                                   subPriority |-> subPriorityOfUser(network, uid)])
             ELSE bestNetworkLoop(order, i + 1, uid, best)

\* A selection that takes the first applicable network in netId order.
getPhysicalOrUnreachableNetworkForUserLocked_firstFound(uid) ==
    LET found == {n \in DOMAIN mNetworks :
                     /\ isPhysical(mNetworks[n]) \/ isUnreachable(mNetworks[n])
                     /\ appliesToUser(mNetworks[n], uid)
                     /\ subPriorityOfUser(mNetworks[n], uid) # SUB_PRIORITY_NO_DEFAULT}
    IN  IF found = {} THEN NETID_UNSET ELSE Min(found)

getPhysicalOrUnreachableNetworkForUserLocked(uid) ==
    bestNetworkLoop(Ascending(DOMAIN mNetworks), 1, uid,
                    [netId |-> NETID_UNSET, subPriority |-> SUB_PRIORITY_NO_DEFAULT]).netId

getNetworkForConnectLocked(uid) ==
    IF getPhysicalOrUnreachableNetworkForUserLocked(uid) # NETID_UNSET
    THEN getPhysicalOrUnreachableNetworkForUserLocked(uid)
    ELSE mDefaultNetId

checkUserNetworkAccessLocked(uid, netId) ==
    IF ~isValidNetworkLocked(netId) THEN ENONET
    ELSE IF uid = INVALID_UID THEN EREMOTEIO
    ELSE IF BitAnd(getPermissionForUserLocked(uid), PERMISSION_SYSTEM) = PERMISSION_SYSTEM
    THEN OK
    ELSE LET network == mNetworks[netId]
             virtualNetwork == getVirtualNetworkForUserLocked(uid)
         IN  IF isVirtual(network)
             THEN (IF appliesToUser(network, uid) THEN OK ELSE EPERM)
             ELSE IF virtualNetwork # NETID_UNSET /\ mNetworks[virtualNetwork].secure /\
                     ~isProtectableLocked(uid, netId)
             THEN EPERM
             ELSE IF isPhysical(network) /\ appliesToUser(network, uid) THEN OK
             ELSE IF isUnreachable(network)
             THEN (IF appliesToUser(network, uid) THEN OK ELSE EPERM)
             ELSE IF ~networkIsUidAllowed(network, uid) THEN EACCES
             ELSE IF BitAnd(getPermissionForUserLocked(uid), network.permission)
                        = network.permission
             THEN OK
             ELSE EACCES

\* resolv_has_nameservers(netId)
resolv_has_nameservers(netId) == netId \in nameservers

\* getNetworkForDnsLocked(&netId, uid): the netId written back and the fields
\* of the fwmark returned.
\* An answer with the netId the request names, whatever the registry holds.
getNetworkForDnsLocked_asRequested(netId, uid) ==
    [netId |-> netId, explicitlySelected |-> TRUE, protectedFromVpn |-> TRUE,
     permission |-> PERMISSION_SYSTEM]

getNetworkForDnsLocked(netId, uid) ==
    LET appDefaultNetwork == getPhysicalOrUnreachableNetworkForUserLocked(uid)
        defaultNetId == IF appDefaultNetwork # NETID_UNSET THEN appDefaultNetwork
                        ELSE mDefaultNetId
        virtualNetwork == getVirtualNetworkForUserLocked(uid)
        Mark(n, explicit) == [netId |-> n, explicitlySelected |-> explicit,
                              protectedFromVpn |-> TRUE, permission |-> PERMISSION_SYSTEM]
    IN  IF netId = NETID_UNSET /\ virtualNetwork = NETID_UNSET
        THEN Mark(defaultNetId, TRUE)
        ELSE IF checkUserNetworkAccessLocked(uid, netId) = OK
        THEN (IF isValidNetworkLocked(netId) /\ isVirtual(mNetworks[netId]) /\
                 ~resolv_has_nameservers(netId)
              THEN Mark(defaultNetId, TRUE)
              ELSE Mark(netId, TRUE))
        ELSE IF virtualNetwork # NETID_UNSET /\ resolv_has_nameservers(virtualNetwork)
        THEN Mark(virtualNetwork, TRUE)
        ELSE Mark(defaultNetId, FALSE)

\* A check without the exemption of requests that name no network.
isUidAllowed_noExemption(netId, uid) ==
    isValidNetworkLocked(netId) /\ networkIsUidAllowed(mNetworks[netId], uid)

isUidAllowed(netId, uid) ==
    IF netId = NETID_UNSET /\ mDefaultNetId = NETID_UNSET THEN TRUE
    ELSE isValidNetworkLocked(netId) /\ networkIsUidAllowed(mNetworks[netId], uid)

\* isWrongNetworkForUidRanges: the checks of addUsersToNetwork / removeUsersFromNetwork.
isWrongNetworkForUidRanges(netId) ==
    IF ~isValidNetworkLocked(netId) THEN ENONET
    ELSE IF ~canAddUsers(mNetworks[netId]) THEN EINVAL
    ELSE OK

\* A check of the network alone.
modifyRouteCheck_networkOnly(netId, iface) ==
    IF ~isValidNetworkLocked(netId) THEN ENONET ELSE OK

\* The checks of modifyRoute (addRoute / updateRoute / removeRoute); OK when
\* the route is forwarded to the route controller.
modifyRouteCheck(netId, iface) ==
    IF ~isValidNetworkLocked(netId) THEN ENONET
    ELSE IF getNetworkForInterfaceLocked(iface) = NETID_UNSET THEN ENODEV
    ELSE IF getNetworkForInterfaceLocked(iface) # netId THEN ENOENT
    ELSE OK

\* The validation pass of setNetworkAllowlist over the netIds of its configs.
setNetworkAllowlistCheck(netIds) ==
    IF \E i \in 1 .. Len(netIds) : ~isValidNetworkLocked(netIds[i]) THEN ENONET ELSE OK

(***************************************************************************)
(* The constructor.                                                        *)
(***************************************************************************)
Constructed ==
    /\ mNetworks = [n \in FixedNetIds |->
                      IF n = LOCAL_NET_ID THEN NewNetwork("Local", PERMISSION_NONE, FALSE)
                      ELSE IF n = DUMMY_NET_ID THEN NewNetwork("Dummy", PERMISSION_NONE, FALSE)
                      ELSE NewNetwork("Unreachable", PERMISSION_NONE, FALSE)]
    /\ mDefaultNetId = NETID_UNSET
    /\ mUsers = << >>
    /\ mProtectableUsers = {<<AID_VPN, NETID_UNSET>>}
    /\ mIfindexToLastNetId = << >>
    /\ mAddressToIfindices = << >>
    /\ tcpSocketMonitor = "none"
    /\ last = [op |-> "NetworkController", ret |-> OK]

Init ==
    /\ StartupDone
    /\ NoThreads
    /\ Constructed
    /\ nameservers = {}


(***************************************************************************)
(* Mutators of the registry: networks, interfaces, default network.        *)
(***************************************************************************)
\* The registry part a failed call leaves alone.
Fail(op, ret) ==
    /\ Returned(op, ret)
    /\ UNCHANGED <<mNetworks, mDefaultNetId, mIfindexToLastNetId, tcpSocketMonitor>>

\* What getDefaultNetwork() returns.
getDefaultNetwork == mDefaultNetId

\* A switch that returns 0 without reaching the assignment.
switchDefault_unassigned(netId, kAdd, kRemove) ==
    [networks |-> mNetworks, defaultNetId |-> mDefaultNetId, ret |-> OK]

\* What setDefaultNetwork(netId) does once its early returns are passed:
\* addAsDefault on the new network, then removeAsDefault on the previous one,
\* then the assignment of mDefaultNetId.  [networks, defaultNetId, ret]
switchDefault(netId, kAdd, kRemove) ==
    LET addRet == IF netId = NETID_UNSET THEN OK ELSE KernelOutcome(mNetworks[netId], kAdd)
        added == IF netId = NETID_UNSET THEN mNetworks
                 ELSE [mNetworks EXCEPT ![netId] = addAsDefault(@, kAdd)]
    IN  IF addRet # OK
        THEN [networks |-> mNetworks, defaultNetId |-> mDefaultNetId, ret |-> addRet]
        ELSE IF mDefaultNetId = NETID_UNSET
        THEN [networks |-> added, defaultNetId |-> netId, ret |-> OK]
        ELSE IF ~isValidNetworkLocked(mDefaultNetId) \/ ~isPhysical(mNetworks[mDefaultNetId])
        THEN [networks |-> added, defaultNetId |-> mDefaultNetId, ret |-> ESRCH]
        ELSE IF KernelOutcome(added[mDefaultNetId], kRemove) # OK
        THEN [networks |-> added, defaultNetId |-> mDefaultNetId,
              ret |-> KernelOutcome(added[mDefaultNetId], kRemove)]
        ELSE [networks |-> [added EXCEPT ![mDefaultNetId] = removeAsDefault(@, kRemove)],
              defaultNetId |-> netId, ret |-> OK]

\* The early returns of setDefaultNetwork; OK when none is taken.
setDefaultNetworkCheck(netId) ==
    IF netId = NETID_UNSET THEN OK
    ELSE IF ~isValidNetworkLocked(netId) THEN ENONET
    ELSE IF ~isPhysical(mNetworks[netId]) THEN EINVAL
    ELSE OK

setDefaultNetwork(netId, kAdd, kRemove) ==
    IF netId = mDefaultNetId THEN Fail("setDefaultNetwork", OK)
    ELSE IF setDefaultNetworkCheck(netId) # OK
    THEN Fail("setDefaultNetwork", setDefaultNetworkCheck(netId))
    ELSE LET r == switchDefault(netId, kAdd, kRemove)
         IN  /\ mNetworks' = r.networks
             /\ mDefaultNetId' = r.defaultNetId
             /\ Returned("setDefaultNetwork", r.ret)
             /\ UNCHANGED <<mIfindexToLastNetId, tcpSocketMonitor>>

\* A check that tests the range only.
createPhysicalNetworkCheck_rangeOnly(netId) ==
    IF ~((MIN_NET_ID <= netId /\ netId <= MAX_NET_ID) \/
         (MIN_OEM_ID <= netId /\ netId <= MAX_OEM_ID)) THEN EINVAL
    ELSE OK

\* The range check and the duplicate check of createPhysicalNetworkLocked.
createPhysicalNetworkCheck(netId) ==
    IF ~((MIN_NET_ID <= netId /\ netId <= MAX_NET_ID) \/
         (MIN_OEM_ID <= netId /\ netId <= MAX_OEM_ID)) THEN EINVAL
    ELSE IF isValidNetworkLocked(netId) THEN EEXIST
    ELSE OK

\* setPermission on the new, empty network cannot fail.
createPhysicalNetworkLocked(op, netId, permission) ==
    IF createPhysicalNetworkCheck(netId) # OK
    THEN Fail(op, createPhysicalNetworkCheck(netId))
    ELSE LET networks == [n \in DOMAIN mNetworks \cup {netId} |->
                            IF n = netId
                            THEN setPermission(NewNetwork("Physical", PERMISSION_NONE, FALSE),
                                               permission, OK)
                            ELSE mNetworks[n]]
         IN  /\ mNetworks' = networks
             /\ tcpSocketMonitor' = updateTcpSocketMonitorPolling(networks)
             /\ Returned(op, OK)
             /\ UNCHANGED <<mDefaultNetId, mIfindexToLastNetId>>

createPhysicalNetwork(netId, permission) ==
    createPhysicalNetworkLocked("createPhysicalNetwork", netId, permission)

createVirtualNetworkCheck(netId, vpnType) ==
    IF ~(MIN_NET_ID <= netId /\ netId <= MAX_NET_ID) THEN EINVAL
    ELSE IF isValidNetworkLocked(netId) THEN EEXIST
    ELSE IF vpnType < VPN_SERVICE \/ VPN_OEM_LEGACY < vpnType THEN EINVAL
    ELSE OK

createVirtualNetwork(netId, secure, vpnType, k) ==
    IF createVirtualNetworkCheck(netId, vpnType) # OK
    THEN Fail("createVirtualNetwork", createVirtualNetworkCheck(netId, vpnType))
    ELSE IF modifyFallthroughLocked(k) # OK
    THEN Fail("createVirtualNetwork", modifyFallthroughLocked(k))
    ELSE /\ mNetworks' = [n \in DOMAIN mNetworks \cup {netId} |->
                            IF n = netId THEN NewNetwork("Virtual", PERMISSION_NONE, secure)
                            ELSE mNetworks[n]]
         /\ Returned("createVirtualNetwork", OK)
         /\ UNCHANGED <<mDefaultNetId, mIfindexToLastNetId, tcpSocketMonitor>>

\* The early returns of destroyNetwork; OK when none is taken.
destroyNetworkCheck(netId) ==
    IF netId = LOCAL_NET_ID \/ netId = UNREACHABLE_NET_ID THEN EINVAL
    ELSE IF ~isValidNetworkLocked(netId) THEN ENONET
    ELSE OK

\* The last error seen instead of the first.
destroyNetworkRet_lastError(netId, kClear, kDef) ==
    LET network == mNetworks[netId]
        ret == KernelOutcome(network, kClear)
        err == IF mDefaultNetId = netId
               THEN (IF ret = OK THEN OK ELSE kDef)
               ELSE IF isVirtual(network) THEN modifyFallthroughLocked(kDef)
               ELSE OK
    IN  IF err # OK THEN err ELSE ret

\* The value destroyNetwork returns: the first error seen.  kClear is the
\* outcome of clearInterfaces; kDef that of removeAsDefault (the network was
\* the default) or of the fallthrough removal (a Virtual network).  When
\* clearInterfaces failed, interfaces are left and removeAsDefault can fail too.
destroyNetworkRet(netId, kClear, kDef) ==
    LET network == mNetworks[netId]
        ret == KernelOutcome(network, kClear)
        err == IF mDefaultNetId = netId
               THEN (IF ret = OK THEN OK ELSE kDef)
               ELSE IF isVirtual(network) THEN modifyFallthroughLocked(kDef)
               ELSE OK
    IN  IF ret # OK THEN ret ELSE err

\* mDefaultNetId left as it was.
defaultAfterDestroy_kept(netId) == mDefaultNetId

defaultAfterDestroy(netId) ==
    IF mDefaultNetId = netId THEN NETID_UNSET ELSE mDefaultNetId

\* No entry purged.
purgeLastNetId_none(netId) == mIfindexToLastNetId

purgeLastNetId(netId) ==
    LET keep == {i \in DOMAIN mIfindexToLastNetId : mIfindexToLastNetId[i] # netId}
    IN  [i \in keep |-> mIfindexToLastNetId[i]]

destroyNetwork(netId, kClear, kDef) ==
    IF destroyNetworkCheck(netId) # OK
    THEN Fail("destroyNetwork", destroyNetworkCheck(netId))
    ELSE LET networks == [n \in DOMAIN mNetworks \ {netId} |-> mNetworks[n]]
         IN  /\ mNetworks' = networks
             /\ mDefaultNetId' = defaultAfterDestroy(netId)
             /\ mIfindexToLastNetId' = purgeLastNetId(netId)
             /\ tcpSocketMonitor' = updateTcpSocketMonitorPolling(networks)
             /\ Returned("destroyNetwork", destroyNetworkRet(netId, kClear, kDef))

\* The early returns of addInterfaceToNetwork; OK when none is taken.
addInterfaceToNetworkCheck(netId, iface) ==
    IF ~isValidNetworkLocked(netId) THEN ENONET
    ELSE IF getNetworkForInterfaceLocked(iface) # NETID_UNSET /\
            getNetworkForInterfaceLocked(iface) # netId THEN EBUSY
    ELSE OK

\* A record made for the local network as well.
recordLastNetId_anyNetwork(netId, iface) ==
    [i \in DOMAIN mIfindexToLastNetId \cup {getIfIndex(iface)} |->
        IF i = getIfIndex(iface) THEN netId ELSE mIfindexToLastNetId[i]]

\* mIfindexToLastNetId after a successful addInterface.
recordLastNetId(netId, iface) ==
    IF netId # LOCAL_NET_ID /\ getIfIndex(iface) # 0
    THEN [i \in DOMAIN mIfindexToLastNetId \cup {getIfIndex(iface)} |->
            IF i = getIfIndex(iface) THEN netId ELSE mIfindexToLastNetId[i]]
    ELSE mIfindexToLastNetId

\* Network::addInterface returns k: with k = OK the interface is a member
\* afterwards, with an error the membership is as before.
addInterfaceToNetwork(netId, iface, k) ==
    IF addInterfaceToNetworkCheck(netId, iface) # OK
    THEN Fail("addInterfaceToNetwork", addInterfaceToNetworkCheck(netId, iface))
    ELSE IF k # OK THEN Fail("addInterfaceToNetwork", k)
    ELSE /\ mNetworks' = [mNetworks EXCEPT ![netId].interfaces = @ \cup {iface}]
         /\ mIfindexToLastNetId' = recordLastNetId(netId, iface)
         /\ Returned("addInterfaceToNetwork", OK)
         /\ UNCHANGED <<mDefaultNetId, tcpSocketMonitor>>

removeInterfaceFromNetworkCheck(netId) ==
    IF ~isValidNetworkLocked(netId) THEN ENONET ELSE OK

removeInterfaceFromNetwork(netId, iface, k) ==
    IF removeInterfaceFromNetworkCheck(netId) # OK
    THEN Fail("removeInterfaceFromNetwork", removeInterfaceFromNetworkCheck(netId))
    ELSE IF k # OK THEN Fail("removeInterfaceFromNetwork", k)
    ELSE /\ mNetworks' = [mNetworks EXCEPT ![netId].interfaces = @ \ {iface}]
         /\ Returned("removeInterfaceFromNetwork", OK)
         /\ UNCHANGED <<mDefaultNetId, mIfindexToLastNetId, tcpSocketMonitor>>

\* A loop that goes on to the next netId after a failing one and returns the
\* first error.
RECURSIVE setPermissionLoop_skipFailures(_, _, _, _, _, _)
setPermissionLoop_skipFailures(networks, permission, netIds, i, failAt, kerr) ==
    IF i > Len(netIds) THEN [networks |-> networks, ret |-> OK]
    ELSE LET netId == netIds[i]
             k == IF i = failAt THEN kerr ELSE OK
             err == IF netId \notin DOMAIN networks THEN ENONET
                    ELSE IF ~isPhysical(networks[netId]) THEN EINVAL
                    ELSE KernelOutcome(networks[netId], k)
             rest == setPermissionLoop_skipFailures(
                        IF err = OK
                        THEN [networks EXCEPT ![netId] = setPermission(@, permission, k)]
                        ELSE networks,
                        permission, netIds, i + 1, failAt, kerr)
         IN  [networks |-> rest.networks, ret |-> IF err # OK THEN err ELSE rest.ret]

\* The loop of setPermissionForNetworks from position i on; the kernel call
\* of position failAt (0: none) comes back with kerr.  [networks, ret]
RECURSIVE setPermissionLoop(_, _, _, _, _, _)
setPermissionLoop(networks, permission, netIds, i, failAt, kerr) ==
    IF i > Len(netIds) THEN [networks |-> networks, ret |-> OK]
    ELSE LET netId == netIds[i]
             k == IF i = failAt THEN kerr ELSE OK
         IN  IF netId \notin DOMAIN networks THEN [networks |-> networks, ret |-> ENONET]
             ELSE IF ~isPhysical(networks[netId]) THEN [networks |-> networks, ret |-> EINVAL]
             ELSE IF KernelOutcome(networks[netId], k) # OK
             THEN [networks |-> networks, ret |-> KernelOutcome(networks[netId], k)]
             ELSE setPermissionLoop([networks EXCEPT ![netId] = setPermission(@, permission, k)],
                                    permission, netIds, i + 1, failAt, kerr)

setPermissionForNetworksRet(permission, netIds, failAt, kerr) ==
    setPermissionLoop(mNetworks, permission, netIds, 1, failAt, kerr).ret

setPermissionForNetworks(permission, netIds, failAt, kerr) ==
    /\ mNetworks' = setPermissionLoop(mNetworks, permission, netIds, 1, failAt, kerr).networks
    /\ last' = [op |-> "setPermissionForNetworks", permission |-> permission,
                netIds |-> netIds,
                ret |-> setPermissionForNetworksRet(permission, netIds, failAt, kerr)]
    /\ UNCHANGED <<mDefaultNetId, mIfindexToLastNetId, tcpSocketMonitor>>

NetIdLists == UNION {[1 .. len -> NetIdArgs \ {NETID_UNSET}] : len \in 0 .. MaxListLen}

(***************************************************************************)
(* The registry under create / destroy / interface / default operations.   *)
(***************************************************************************)
UidStateUnchanged == UNCHANGED <<mUsers, mProtectableUsers, mAddressToIfindices, nameservers>>

\* The permissions networks are created with here.
CreatePermissions == {PERMISSION_NONE, PERMISSION_SYSTEM}

VpnTypeArgs == {VPN_SERVICE, VPN_OEM_LEGACY + 1}

\* The outcomes the kernel calls made for netId's interfaces can have.
KernelChoices(netId) ==
    IF netId \in DOMAIN mNetworks /\ mNetworks[netId].interfaces # {}
    THEN KernelResults ELSE {OK}

Next ==
    \/ \E netId \in NetIdArgs :
          \E kAdd \in KernelChoices(netId), kRemove \in KernelChoices(mDefaultNetId) :
             setDefaultNetwork(netId, kAdd, kRemove) /\ UidStateUnchanged /\ UNCHANGED <<startup, threading>>
    \/ \E netId \in NetIdArgs, permission \in CreatePermissions :
          createPhysicalNetwork(netId, permission) /\ UidStateUnchanged /\ UNCHANGED <<startup, threading>>
    \/ \E netId \in NetIdArgs, secure \in BOOLEAN, vpnType \in VpnTypeArgs,
          k \in KernelChoices(mDefaultNetId) :
          createVirtualNetwork(netId, secure, vpnType, k) /\ UidStateUnchanged /\ UNCHANGED <<startup, threading>>
    \/ \E netId \in NetIdArgs :
          \E kClear \in KernelChoices(netId),
             kDef \in KernelChoices(netId) \cup KernelChoices(mDefaultNetId) :
             destroyNetwork(netId, kClear, kDef) /\ UidStateUnchanged /\ UNCHANGED <<startup, threading>>
    \/ \E netId \in NetIdArgs, iface \in Ifaces, k \in KernelResults :
          addInterfaceToNetwork(netId, iface, k) /\ UidStateUnchanged /\ UNCHANGED <<startup, threading>>
    \/ \E netId \in NetIdArgs, iface \in Ifaces, k \in KernelResults :
          removeInterfaceFromNetwork(netId, iface, k) /\ UidStateUnchanged /\ UNCHANGED <<startup, threading>>

Spec == Init /\ [][Next]_vars

(***************************************************************************)
(* Protection grants and the queries of the access policy.                 *)
(***************************************************************************)
NetworkStateUnchanged ==
    UNCHANGED <<mNetworks, mDefaultNetId, mUsers, mIfindexToLastNetId, mAddressToIfindices,
                nameservers, tcpSocketMonitor>>

allowProtect(uid, netId) ==
    /\ mProtectableUsers' = mProtectableUsers \cup {<<uid, netId>>}
    /\ Returned("allowProtect", IF <<uid, netId>> \in mProtectableUsers THEN EEXIST ELSE OK)
    /\ NetworkStateUnchanged

\* A revocation that drops every grant of uid.
denyProtect_everyGrant(uid, netId) ==
    /\ mProtectableUsers' = {g \in mProtectableUsers : g[1] # uid}
    /\ Returned("denyProtect", IF <<uid, netId>> \in mProtectableUsers THEN OK ELSE ENOENT)
    /\ NetworkStateUnchanged

denyProtect(uid, netId) ==
    /\ mProtectableUsers' = mProtectableUsers \ {<<uid, netId>>}
    /\ Returned("denyProtect", IF <<uid, netId>> \in mProtectableUsers THEN OK ELSE ENOENT)
    /\ NetworkStateUnchanged

\* Network::addUsers(uidRanges, subPriority): the ranges are recorded under
\* subPriority once the route controller has accepted them.
addUsers(net, uidRanges, subPriority, k) ==
    IF k = OK
    THEN [net EXCEPT !.uidRanges = @ \cup {<<subPriority, r[1], r[2]>> : r \in uidRanges}]
    ELSE net

addUsersToNetwork(netId, uidRanges, subPriority, k) ==
    /\ IF isWrongNetworkForUidRanges(netId) # OK
       THEN /\ Returned("addUsersToNetwork", isWrongNetworkForUidRanges(netId))
            /\ UNCHANGED mNetworks
       ELSE /\ mNetworks' = [mNetworks EXCEPT
                                ![netId] = addUsers(@, uidRanges, subPriority, k)]
            /\ Returned("addUsersToNetwork", k)
    /\ UNCHANGED <<mDefaultNetId, mUsers, mProtectableUsers, mIfindexToLastNetId,
                   mAddressToIfindices, nameservers, tcpSocketMonitor>>

checkUserNetworkAccess(uid, netId) ==
    /\ Returned("checkUserNetworkAccess", checkUserNetworkAccessLocked(uid, netId))
    /\ UNCHANGED <<mProtectableUsers>>
    /\ NetworkStateUnchanged

(***************************************************************************)
(* Registry configurations: the networks the create calls leave, with the  *)
(* uid ranges of addUsersToNetwork, the allowlists of setNetworkAllowlist  *)
(* and the permissions of setPermissionForUsers.                           *)
(***************************************************************************)
FirstAppUid == FIRST_APPLICATION_UID + 1
LastAppUid == FIRST_APPLICATION_UID + NumAppUids

Absent == [type |-> "Absent"]

\* The allowlist every network is given: none, the first or the last application uid.
AllowChoices == {{}, {<<FirstAppUid, FirstAppUid>>}, {<<LastAppUid, LastAppUid>>}}

\* What a netId of the general range can be after the create calls: absent,
\* a Physical network or a Virtual network.
UserNetChoices ==
    {Absent}
    \cup {NewNetwork("Physical", p, FALSE) : p \in Permissions}
    \cup {NewNetwork("Virtual", PERMISSION_NONE, sec) : sec \in BOOLEAN}

\* The registry with the networks of topo, every network holding the
\* allowlist allowed.
NetworksOf(topo, allowed) ==
    [n \in FixedNetIds \cup {u \in UserNetIds : topo[u] # Absent} |->
        [(IF n = LOCAL_NET_ID THEN NewNetwork("Local", PERMISSION_NONE, FALSE)
          ELSE IF n = DUMMY_NET_ID THEN NewNetwork("Dummy", PERMISSION_NONE, FALSE)
          ELSE IF n = UNREACHABLE_NET_ID
          THEN NewNetwork("Unreachable", PERMISSION_NONE, FALSE)
          ELSE topo[n])
         EXCEPT !.allowedUids = allowed]]

\* The last signal to the TCP socket monitor once the create calls have built
\* networks; none when nothing was created.
monitorAfterCreates(networks) ==
    IF DOMAIN networks = FixedNetIds THEN "none"
    ELSE updateTcpSocketMonitorPolling(networks)

\* The permissions setPermissionForUsers left: none given, or one given to
\* the first application uid.
UserChoices ==
    {<< >>} \cup {[u \in {FirstAppUid} |-> p] : p \in {PERMISSION_NETWORK, PERMISSION_SYSTEM}}

InitAccess ==
    /\ StartupDone
    /\ NoThreads
    /\ \E topo \in [UserNetIds -> UserNetChoices], allowed \in AllowChoices :
          mNetworks = NetworksOf(topo, allowed)
    /\ mUsers \in UserChoices
    /\ mDefaultNetId = NETID_UNSET
    /\ mProtectableUsers = {<<AID_VPN, NETID_UNSET>>}
    /\ mIfindexToLastNetId = << >>
    /\ mAddressToIfindices = << >>
    /\ nameservers = {}
    /\ tcpSocketMonitor = monitorAfterCreates(mNetworks)
    /\ last = [op |-> "NetworkController", ret |-> OK]

\* The grants asked for: the wildcard or one network, for the first application uid.
ProtectNetArgs == {NETID_UNSET, DUMMY_NET_ID}

\* The uid ranges handed to addUsersToNetwork: the first application uid.
UidRangeArgs == {{<<FirstAppUid, FirstAppUid>>}}

NextAccess ==
    \/ \E netId \in NetIdArgs, uidRanges \in UidRangeArgs, k \in KernelResults :
          addUsersToNetwork(netId, uidRanges, SUB_PRIORITY_HIGHEST, k) /\ UNCHANGED <<startup, threading>>
    \/ \E netId \in ProtectNetArgs : allowProtect(FirstAppUid, netId) /\ UNCHANGED <<startup, threading>>
    \/ \E netId \in ProtectNetArgs : denyProtect(FirstAppUid, netId) /\ UNCHANGED <<startup, threading>>
    \/ \E uid \in UidArgs, netId \in NetIdArgs : checkUserNetworkAccess(uid, netId) /\ UNCHANGED <<startup, threading>>

SpecAccess == InitAccess /\ [][NextAccess]_vars

(***************************************************************************)
(* Network selection for connect: per-app defaults by subPriority.         *)
(***************************************************************************)
getNetworkForConnect(uid) ==
    /\ last' = [op |-> "getNetworkForConnect", uid |-> uid,
                ret |-> getNetworkForConnectLocked(uid)]
    /\ UNCHANGED <<mProtectableUsers>>
    /\ NetworkStateUnchanged

\* Networks of permission NONE, Virtual ones not secure.
PlainNetChoices ==
    {Absent, NewNetwork("Physical", PERMISSION_NONE, FALSE),
     NewNetwork("Virtual", PERMISSION_NONE, FALSE)}

InitSelect ==
    /\ StartupDone
    /\ NoThreads
    /\ \E topo \in [UserNetIds -> PlainNetChoices] : mNetworks = NetworksOf(topo, {})
    /\ mUsers = << >>
    /\ mDefaultNetId = NETID_UNSET
    /\ mProtectableUsers = {<<AID_VPN, NETID_UNSET>>}
    /\ mIfindexToLastNetId = << >>
    /\ mAddressToIfindices = << >>
    /\ nameservers = {}
    /\ tcpSocketMonitor = monitorAfterCreates(mNetworks)
    /\ last = [op |-> "NetworkController", ret |-> OK]

SubPriorityArgs ==
    {SUB_PRIORITY_HIGHEST, SUB_PRIORITY_HIGHEST + 1, SUB_PRIORITY_NO_DEFAULT}

NextSelect ==
    \/ \E netId \in NetIdArgs, uidRanges \in UidRangeArgs, subPriority \in SubPriorityArgs,
          k \in KernelResults :
          addUsersToNetwork(netId, uidRanges, subPriority, k) /\ UNCHANGED <<startup, threading>>
    \/ \E netId \in NetIdArgs :
          \E kAdd \in KernelChoices(netId), kRemove \in KernelChoices(mDefaultNetId) :
             setDefaultNetwork(netId, kAdd, kRemove) /\ UidStateUnchanged /\ UNCHANGED <<startup, threading>>
    \/ \E uid \in UidArgs : getNetworkForConnect(uid) /\ UNCHANGED <<startup, threading>>

SpecSelect == InitSelect /\ [][NextSelect]_vars

(***************************************************************************)
(* DNS network selection.                                                  *)
(***************************************************************************)
getNetworkForDns(netId, uid) ==
    /\ last' = [op |-> "getNetworkForDns", netId |-> netId, uid |-> uid,
                mark |-> getNetworkForDnsLocked(netId, uid)]
    /\ UNCHANGED <<mProtectableUsers>>
    /\ NetworkStateUnchanged

InitDns ==
    /\ StartupDone
    /\ NoThreads
    /\ \E topo \in [UserNetIds -> UserNetChoices] : mNetworks = NetworksOf(topo, {})
    /\ mUsers = << >>
    /\ mDefaultNetId = NETID_UNSET
    /\ mProtectableUsers \in {{<<AID_VPN, NETID_UNSET>>},
                              {<<AID_VPN, NETID_UNSET>>, <<FirstAppUid, NETID_UNSET>>}}
    /\ mIfindexToLastNetId = << >>
    /\ mAddressToIfindices = << >>
    /\ nameservers \in SUBSET {n \in DOMAIN mNetworks : isVirtual(mNetworks[n])}
    /\ tcpSocketMonitor = monitorAfterCreates(mNetworks)
    /\ last = [op |-> "NetworkController", ret |-> OK]

NextDns ==
    \/ \E netId \in NetIdArgs, uidRanges \in UidRangeArgs, k \in KernelResults :
          addUsersToNetwork(netId, uidRanges, SUB_PRIORITY_HIGHEST, k) /\ UNCHANGED <<startup, threading>>
    \/ \E netId \in NetIdArgs :
          \E kAdd \in KernelChoices(netId), kRemove \in KernelChoices(mDefaultNetId) :
             setDefaultNetwork(netId, kAdd, kRemove) /\ UidStateUnchanged /\ UNCHANGED <<startup, threading>>
    \/ \E netId \in NetIdArgs, uid \in UidArgs : getNetworkForDns(netId, uid) /\ UNCHANGED <<startup, threading>>

SpecDns == InitDns /\ [][NextDns]_vars

(***************************************************************************)
(* The network context of a request: fwmark codec and getNetworkContext.   *)
(***************************************************************************)
\* Width of the netId field of a fwmark.
NETID_BITS == 16

Bit(b) == IF b THEN 1 ELSE 0

\* Fwmark::intValue: netId in bits 0-15, explicitlySelected in bit 16,
\* protectedFromVpn in bit 17, permission in bits 18-19.
FwmarkIntValue(f) ==
    (f.netId % 2^NETID_BITS)
    + 2^NETID_BITS * Bit(f.explicitlySelected)
    + 2^(NETID_BITS + 1) * Bit(f.protectedFromVpn)
    + 2^(NETID_BITS + 2) * (f.permission % 4)

\* The fields read back from a mark.
FwmarkFields(v) ==
    [netId |-> v % 2^NETID_BITS,
     explicitlySelected |-> (v \div 2^NETID_BITS) % 2 = 1,
     protectedFromVpn |-> (v \div 2^(NETID_BITS + 1)) % 2 = 1,
     permission |-> (v \div 2^(NETID_BITS + 2)) % 4]

\* The android_net_context getNetworkContext(netId, uid, &netcontext) fills.
getNetworkContextLocked(netId, uid) ==
    LET explicitlySelected == netId # NETID_UNSET
        app_netid == IF explicitlySelected THEN netId ELSE getNetworkForConnectLocked(uid)
        fwmark == [netId |-> app_netid,
                   explicitlySelected |-> explicitlySelected,
                   protectedFromVpn |-> explicitlySelected /\
                                        canProtectLocked(uid, app_netid),
                   permission |-> getPermissionForUserLocked(uid)]
        dns == getNetworkForDnsLocked(netId, uid)
    IN  [app_netid |-> app_netid,
         app_mark |-> FwmarkIntValue(fwmark),
         dns_netid |-> dns.netId,
         dns_mark |-> FwmarkIntValue(dns),
         uid |-> uid]

getNetworkContext(netId, uid) ==
    /\ last' = [op |-> "getNetworkContext", netId |-> netId, uid |-> uid,
                nc |-> getNetworkContextLocked(netId, uid)]
    /\ UNCHANGED <<mProtectableUsers>>
    /\ NetworkStateUnchanged

InitContext ==
    /\ StartupDone
    /\ NoThreads
    /\ \E topo \in [UserNetIds -> PlainNetChoices] : mNetworks = NetworksOf(topo, {})
    /\ mUsers \in UserChoices
    /\ mDefaultNetId = NETID_UNSET
    /\ mProtectableUsers \in {{<<AID_VPN, NETID_UNSET>>},
                              {<<AID_VPN, NETID_UNSET>>, <<FirstAppUid, DUMMY_NET_ID>>}}
    /\ mIfindexToLastNetId = << >>
    /\ mAddressToIfindices = << >>
    /\ nameservers = {}
    /\ tcpSocketMonitor = monitorAfterCreates(mNetworks)
    /\ last = [op |-> "NetworkController", ret |-> OK]

\* The netIds asked for: those of NetIdArgs and the largest netId.
ContextNetIdArgs == NetIdArgs \cup {MAX_NET_ID}

NextContext ==
    \/ \E netId \in NetIdArgs, uidRanges \in UidRangeArgs, k \in KernelResults :
          addUsersToNetwork(netId, uidRanges, SUB_PRIORITY_HIGHEST, k) /\ UNCHANGED <<startup, threading>>
    \/ \E netId \in NetIdArgs :
          \E kAdd \in KernelChoices(netId), kRemove \in KernelChoices(mDefaultNetId) :
             setDefaultNetwork(netId, kAdd, kRemove) /\ UidStateUnchanged /\ UNCHANGED <<startup, threading>>
    \/ \E netId \in ContextNetIdArgs, uid \in UidArgs : getNetworkContext(netId, uid) /\ UNCHANGED <<startup, threading>>

SpecContext == InitContext /\ [][NextContext]_vars

(***************************************************************************)
(* Permissions of users and protection grants.                             *)
(***************************************************************************)
\* setPermissionForUsers(permission, uids): uids is a sequence of uids.
setPermissionForUsers(permission, uids) ==
    LET given == {uids[i] : i \in DOMAIN uids}
    IN  /\ mUsers' = [u \in DOMAIN mUsers \cup given |->
                         IF u \in given THEN permission ELSE mUsers[u]]
        /\ Returned("setPermissionForUsers", OK)
        /\ UNCHANGED <<mNetworks, mDefaultNetId, mProtectableUsers, mIfindexToLastNetId,
                       mAddressToIfindices, nameservers, tcpSocketMonitor>>

canProtect(uid, netId) ==
    /\ last' = [op |-> "canProtect", uid |-> uid, netId |-> netId,
                ret |-> canProtectLocked(uid, netId)]
    /\ UNCHANGED <<mProtectableUsers>>
    /\ NetworkStateUnchanged

\* The uids given permissions and grants: an application and a system uid.
GrantUidArgs == {FirstAppUid, AID_SYSTEM}
GrantNetArgs == {NETID_UNSET, DUMMY_NET_ID, MIN_NET_ID}
UidListArgs == {<<FirstAppUid>>, <<AID_SYSTEM>>, <<FirstAppUid, AID_SYSTEM>>}

NextProtect ==
    \/ \E permission \in Permissions, uids \in UidListArgs :
          setPermissionForUsers(permission, uids) /\ UNCHANGED <<startup, threading>>
    \/ \E uid \in GrantUidArgs, netId \in GrantNetArgs : allowProtect(uid, netId) /\ UNCHANGED <<startup, threading>>
    \/ \E uid \in GrantUidArgs, netId \in GrantNetArgs : denyProtect(uid, netId) /\ UNCHANGED <<startup, threading>>
    \/ \E uid \in UidArgs \cup {AID_VPN}, netId \in GrantNetArgs : canProtect(uid, netId) /\ UNCHANGED <<startup, threading>>

SpecProtect == Init /\ [][NextProtect]_vars

(***************************************************************************)
(* Allowlists.                                                             *)
(***************************************************************************)
\* Network::clearAllowedUids / Network::setAllowedUids(uidRanges).
clearAllowedUids(net) == [net EXCEPT !.allowedUids = {}]
setAllowedUids(net, uidRanges) == [net EXCEPT !.allowedUids = uidRanges]

\* A replacement that keeps the allowlists of the networks it does not name.
clearAllowedUidsForAllNetworksLocked_none(networks) == networks

clearAllowedUidsForAllNetworksLocked(networks) ==
    [n \in DOMAIN networks |-> clearAllowedUids(networks[n])]

\* The second loop of setNetworkAllowlist from position i on; a config is
\* [netId, uidRanges].
RECURSIVE applyAllowlists(_, _, _)
applyAllowlists(networks, rangeConfigs, i) ==
    IF i > Len(rangeConfigs) THEN networks
    ELSE applyAllowlists(
            [networks EXCEPT ![rangeConfigs[i].netId] =
                                setAllowedUids(@, rangeConfigs[i].uidRanges)],
            rangeConfigs, i + 1)

setNetworkAllowlist(rangeConfigs) ==
    /\ IF setNetworkAllowlistCheck([i \in DOMAIN rangeConfigs |-> rangeConfigs[i].netId]) # OK
       THEN /\ Returned("setNetworkAllowlist", ENONET)
            /\ UNCHANGED mNetworks
       ELSE /\ mNetworks' = applyAllowlists(clearAllowedUidsForAllNetworksLocked(mNetworks),
                                            rangeConfigs, 1)
            /\ Returned("setNetworkAllowlist", OK)
    /\ UNCHANGED <<mDefaultNetId, mUsers, mProtectableUsers, mIfindexToLastNetId,
                   mAddressToIfindices, nameservers, tcpSocketMonitor>>

isUidAllowedCall(netId, uid) ==
    /\ last' = [op |-> "isUidAllowed", netId |-> netId, uid |-> uid,
                ret |-> isUidAllowed(netId, uid)]
    /\ UNCHANGED <<mProtectableUsers>>
    /\ NetworkStateUnchanged

\* The configs handed to setNetworkAllowlist, and the lists of them.
AllowNetArgs == {DUMMY_NET_ID} \cup UserNetIds
AllowRangeArgs == {{}, {<<FirstAppUid, FirstAppUid>>}}
RangeConfigs == [netId : AllowNetArgs, uidRanges : AllowRangeArgs]
RangeConfigLists == UNION {[1 .. len -> RangeConfigs] : len \in 0 .. MaxListLen}

NextAllow ==
    \/ \E rangeConfigs \in RangeConfigLists : setNetworkAllowlist(rangeConfigs) /\ UNCHANGED <<startup, threading>>
    \/ \E netId \in NetIdArgs :
          \E kAdd \in KernelChoices(netId), kRemove \in KernelChoices(mDefaultNetId) :
             setDefaultNetwork(netId, kAdd, kRemove) /\ UidStateUnchanged /\ UNCHANGED <<startup, threading>>
    \/ \E netId \in NetIdArgs, uid \in UidArgs : isUidAllowedCall(netId, uid) /\ UNCHANGED <<startup, threading>>

SpecAllow == InitSelect /\ [][NextAllow]_vars

(***************************************************************************)
(* Interface addresses and the VPN handover test.                          *)
(***************************************************************************)
addInterfaceAddress(ifIndex, address) ==
    /\ mAddressToIfindices' =
          IF ifIndex = 0 THEN mAddressToIfindices
          ELSE [a \in DOMAIN mAddressToIfindices \cup {address} |->
                   IF a = address
                   THEN (IF a \in DOMAIN mAddressToIfindices
                         THEN mAddressToIfindices[a] ELSE {}) \cup {ifIndex}
                   ELSE mAddressToIfindices[a]]
    /\ Returned("addInterfaceAddress", OK)
    /\ UNCHANGED <<mNetworks, mDefaultNetId, mUsers, mProtectableUsers, mIfindexToLastNetId,
                   nameservers, tcpSocketMonitor>>

\* The orders in which the elements of S can be visited.
Orders(S) ==
    {f \in [1 .. Cardinality(S) -> S] : \A i, j \in 1 .. Cardinality(S) : f[i] = f[j] => i = j}

\* mIfindexToLastNetId[idx] on a std::map: a missing key is inserted with
\* the value 0.
lastNetIdAt(lastNetIds, idx) ==
    IF idx \in DOMAIN lastNetIds THEN lastNetIds
    ELSE [i \in DOMAIN lastNetIds \cup {idx} |-> IF i = idx THEN 0 ELSE lastNetIds[i]]

\* The handover loop of removeInterfaceAddress over the remaining ifindices
\* in the order given, from position i on: [lastNetIds, ret].
RECURSIVE handoverLoop(_, _, _, _)
handoverLoop(lastNetIds, order, i, lastNetId) ==
    IF i > Len(order) THEN [lastNetIds |-> lastNetIds, ret |-> TRUE]
    ELSE LET visited == lastNetIdAt(lastNetIds, order[i])
             activeNetId == visited[order[i]]
         IN  IF lastNetId = activeNetId /\ isVirtualNetworkLocked(activeNetId)
             THEN [lastNetIds |-> visited, ret |-> FALSE]
             ELSE handoverLoop(visited, order, i + 1, lastNetId)

\* removeInterfaceAddress(ifindex, address); order is the iteration order of
\* the unordered set of remaining ifindices.
removeInterfaceAddress(ifindex, address, order) ==
    /\ IF address \notin DOMAIN mAddressToIfindices
       THEN /\ last' = [op |-> "removeInterfaceAddress", ifindex |-> ifindex,
                        address |-> address, ret |-> TRUE]
            /\ UNCHANGED <<mAddressToIfindices, mIfindexToLastNetId>>
       ELSE IF ifindex \notin mAddressToIfindices[address]
       THEN /\ last' = [op |-> "removeInterfaceAddress", ifindex |-> ifindex,
                        address |-> address, ret |-> TRUE]
            /\ UNCHANGED <<mAddressToIfindices, mIfindexToLastNetId>>
       ELSE IF mAddressToIfindices[address] = {ifindex}
       THEN /\ mAddressToIfindices' =
                  [a \in DOMAIN mAddressToIfindices \ {address} |-> mAddressToIfindices[a]]
            /\ last' = [op |-> "removeInterfaceAddress", ifindex |-> ifindex,
                        address |-> address, ret |-> TRUE]
            /\ UNCHANGED mIfindexToLastNetId
       ELSE /\ mAddressToIfindices' = [mAddressToIfindices EXCEPT ![address] = @ \ {ifindex}]
            /\ IF ifindex \notin DOMAIN mIfindexToLastNetId
               THEN /\ last' = [op |-> "removeInterfaceAddress", ifindex |-> ifindex,
                                address |-> address, ret |-> TRUE]
                    /\ UNCHANGED mIfindexToLastNetId
               ELSE LET r == handoverLoop(mIfindexToLastNetId, order, 1,
                                          mIfindexToLastNetId[ifindex])
                    IN  /\ mIfindexToLastNetId' = r.lastNetIds
                        /\ last' = [op |-> "removeInterfaceAddress", ifindex |-> ifindex,
                                    address |-> address, ret |-> r.ret]
    /\ UNCHANGED <<mNetworks, mDefaultNetId, mUsers, mProtectableUsers, nameservers,
                   tcpSocketMonitor>>

\* The interfaces and ifindices of the address operations, 0 being no ifindex.
AddressIfaces == 1 .. (MaxIface + 1)
IfindexArgs == 0 .. (MaxIface + 1)
Addresses == {"192.0.2.1"}
AddressNetArgs == {LOCAL_NET_ID} \cup UserNetIds

\* The orders removeInterfaceAddress can visit the remaining ifindices in.
RemainingOrders(ifindex, address) ==
    IF address \in DOMAIN mAddressToIfindices
    THEN Orders(mAddressToIfindices[address] \ {ifindex})
    ELSE {<< >>}

NextAddress ==
    \/ \E netId \in AddressNetArgs, iface \in AddressIfaces :
          addInterfaceToNetwork(netId, iface, OK) /\ UidStateUnchanged /\ UNCHANGED <<startup, threading>>
    \/ \E netId \in AddressNetArgs, iface \in AddressIfaces :
          removeInterfaceFromNetwork(netId, iface, OK) /\ UidStateUnchanged /\ UNCHANGED <<startup, threading>>
    \/ \E netId \in AddressNetArgs :
          \E kClear \in KernelChoices(netId) :
             destroyNetwork(netId, kClear, OK) /\ UidStateUnchanged /\ UNCHANGED <<startup, threading>>
    \/ \E ifIndex \in IfindexArgs, address \in Addresses :
          addInterfaceAddress(ifIndex, address) /\ UNCHANGED <<startup, threading>>
    \/ \E ifindex \in IfindexArgs, address \in Addresses :
          \E order \in RemainingOrders(ifindex, address) :
             removeInterfaceAddress(ifindex, address, order) /\ UNCHANGED <<startup, threading>>

SpecAddress == InitSelect /\ [][NextAddress]_vars

(***************************************************************************)
(* Allocation of OEM netIds.                                               *)
(***************************************************************************)
\* An allocation that takes the largest free id of the OEM range.
scanOemIds_largestFree(pNetId) ==
    LET free == {n \in MIN_OEM_ID .. MAX_OEM_ID : ~isValidNetworkLocked(n)}
    IN  IF free = {} THEN MAX_OEM_ID + 1 ELSE CHOOSE n \in free : \A m \in free : m <= n

\* The scan loop of createPhysicalOemNetwork from *pNetId on: the value of
\* *pNetId when the loop ends.
RECURSIVE scanOemIds(_)
scanOemIds(pNetId) ==
    IF pNetId > MAX_OEM_ID THEN pNetId
    ELSE IF ~isValidNetworkLocked(pNetId) THEN pNetId
    ELSE scanOemIds(pNetId + 1)

\* createPhysicalOemNetwork(permission, pNetId); isNull: pNetId == nullptr.
\* out is *pNetId at return.
createPhysicalOemNetwork(permission, isNull) ==
    LET pNetId == scanOemIds(MIN_OEM_ID)
        ret == createPhysicalNetworkCheck(pNetId)
        networks == [n \in DOMAIN mNetworks \cup {pNetId} |->
                        IF n = pNetId
                        THEN setPermission(NewNetwork("Physical", PERMISSION_NONE, FALSE),
                                           permission, OK)
                        ELSE mNetworks[n]]
    IN  IF isNull
        THEN /\ last' = [op |-> "createPhysicalOemNetwork", ret |-> EINVAL, out |-> 0]
             /\ UNCHANGED <<mNetworks, mDefaultNetId, mIfindexToLastNetId, tcpSocketMonitor>>
        ELSE IF pNetId > MAX_OEM_ID
        THEN /\ last' = [op |-> "createPhysicalOemNetwork", ret |-> ENONET, out |-> 0]
             /\ UNCHANGED <<mNetworks, mDefaultNetId, mIfindexToLastNetId, tcpSocketMonitor>>
        ELSE IF ret # OK
        THEN /\ last' = [op |-> "createPhysicalOemNetwork", ret |-> ret, out |-> 0]
             /\ UNCHANGED <<mNetworks, mDefaultNetId, mIfindexToLastNetId, tcpSocketMonitor>>
        ELSE /\ mNetworks' = networks
             /\ tcpSocketMonitor' = updateTcpSocketMonitorPolling(networks)
             /\ last' = [op |-> "createPhysicalOemNetwork", ret |-> OK, out |-> pNetId]
             /\ UNCHANGED <<mDefaultNetId, mIfindexToLastNetId>>

\* The OEM ids destroyed and created by hand: both ends of the range.
OemNetArgs == (MIN_OEM_ID .. (MIN_OEM_ID + NumUserNets - 1)) \cup {MAX_OEM_ID}

NextOem ==
    \/ \E isNull \in BOOLEAN :
          createPhysicalOemNetwork(PERMISSION_NONE, isNull) /\ UidStateUnchanged /\ UNCHANGED <<startup, threading>>
    \/ \E netId \in OemNetArgs \cup {MIN_NET_ID} :
          createPhysicalNetwork(netId, PERMISSION_NONE) /\ UidStateUnchanged /\ UNCHANGED <<startup, threading>>
    \/ \E netId \in OemNetArgs \cup {MIN_NET_ID} :
          destroyNetwork(netId, OK, OK) /\ UidStateUnchanged /\ UNCHANGED <<startup, threading>>

SpecOem == Init /\ [][NextOem]_vars

(***************************************************************************)
(* Creation at the edges of the netId ranges.                              *)
(***************************************************************************)
\* netIds at both sides of every range border, and vpnTypes likewise.
EdgeNetArgs ==
    {NETID_UNSET, MIN_OEM_ID, MAX_OEM_ID, DUMMY_NET_ID, LOCAL_NET_ID, MIN_NET_ID, MAX_NET_ID,
     MAX_NET_ID + 1}
EdgeVpnTypeArgs == {VPN_SERVICE - 1, VPN_SERVICE, VPN_OEM_LEGACY, VPN_OEM_LEGACY + 1}

NextCreate ==
    \/ \E netId \in EdgeNetArgs :
          createPhysicalNetwork(netId, PERMISSION_NONE) /\ UidStateUnchanged /\ UNCHANGED <<startup, threading>>
    \/ \E netId \in EdgeNetArgs, secure \in BOOLEAN, vpnType \in EdgeVpnTypeArgs :
          createVirtualNetwork(netId, secure, vpnType, OK) /\ UidStateUnchanged /\ UNCHANGED <<startup, threading>>
    \/ \E netId \in EdgeNetArgs : destroyNetwork(netId, OK, OK) /\ UidStateUnchanged /\ UNCHANGED <<startup, threading>>

SpecCreate == Init /\ [][NextCreate]_vars

(***************************************************************************)
(* Packet-filter chains: Controllers::createChildChains.                   *)
(* A line of a batch or of a listing is its sequence of words.             *)
(***************************************************************************)
V4 == "V4"
V6 == "V6"
V4V6 == "V4V6"
FamiliesOf(target) == IF target = V4V6 THEN {V4, V6} ELSE {target}

CONNMARK_MANGLE_INPUT == "connmark_mangle_INPUT"
CONNMARK_MANGLE_OUTPUT == "connmark_mangle_OUTPUT"

FILTER_INPUT == <<"oem_in", "bw_INPUT", "fw_INPUT">>
FILTER_FORWARD == <<"oem_fwd", "fw_FORWARD", "bw_FORWARD", "tetherctrl_FORWARD">>
FILTER_OUTPUT == <<"oem_out", "fw_OUTPUT", "st_OUTPUT", "bw_OUTPUT">>
RAW_PREROUTING ==
    <<"idletimer_raw_PREROUTING", "bw_raw_PREROUTING", "tetherctrl_raw_PREROUTING">>
MANGLE_POSTROUTING == <<"oem_mangle_post", "bw_mangle_POSTROUTING", "idletimer_mangle_POSTROUTING">>
MANGLE_INPUT == <<CONNMARK_MANGLE_INPUT, "wakeupctrl_mangle_INPUT", "routectrl_mangle_INPUT">>
MANGLE_FORWARD == <<"tetherctrl_mangle_FORWARD">>
MANGLE_OUTPUT == <<CONNMARK_MANGLE_OUTPUT>>
NAT_PREROUTING == <<"oem_nat_pre">>
NAT_POSTROUTING == <<"tetherctrl_nat_POSTROUTING">>

\* The createChildChains calls of initChildChains, in the order it makes them.
initChildChainsCalls ==
    << [target |-> V4V6, table |-> "filter", parentChain |-> "INPUT",
        childChains |-> FILTER_INPUT, exclusive |-> TRUE],
       [target |-> V4V6, table |-> "filter", parentChain |-> "FORWARD",
        childChains |-> FILTER_FORWARD, exclusive |-> TRUE],
       [target |-> V4V6, table |-> "raw", parentChain |-> "PREROUTING",
        childChains |-> RAW_PREROUTING, exclusive |-> TRUE],
       [target |-> V4V6, table |-> "mangle", parentChain |-> "FORWARD",
        childChains |-> MANGLE_FORWARD, exclusive |-> TRUE],
       [target |-> V4V6, table |-> "mangle", parentChain |-> "INPUT",
        childChains |-> MANGLE_INPUT, exclusive |-> TRUE],
       [target |-> V4V6, table |-> "mangle", parentChain |-> "OUTPUT",
        childChains |-> MANGLE_OUTPUT, exclusive |-> TRUE],
       [target |-> V4, table |-> "nat", parentChain |-> "PREROUTING",
        childChains |-> NAT_PREROUTING, exclusive |-> TRUE],
       [target |-> V4, table |-> "nat", parentChain |-> "POSTROUTING",
        childChains |-> NAT_POSTROUTING, exclusive |-> TRUE],
       [target |-> V4, table |-> "filter", parentChain |-> "OUTPUT",
        childChains |-> FILTER_OUTPUT, exclusive |-> FALSE],
       [target |-> V6, table |-> "filter", parentChain |-> "OUTPUT",
        childChains |-> FILTER_OUTPUT, exclusive |-> FALSE],
       [target |-> V4, table |-> "mangle", parentChain |-> "POSTROUTING",
        childChains |-> MANGLE_POSTROUTING, exclusive |-> FALSE],
       [target |-> V6, table |-> "mangle", parentChain |-> "POSTROUTING",
        childChains |-> MANGLE_POSTROUTING, exclusive |-> FALSE] >>

Range(seq) == {seq[i] : i \in DOMAIN seq}

\* "-A <parent> -j <child>"
CHILD_CHAIN_TEMPLATE(parentChain, childChain) == <<"-A", parentChain, "-j", childChain>>

\* "^-A ([^ ]+) -j ([^ ]+)$" searched in one line: four words, the first
\* "-A" and the third "-j".
CHILD_CHAIN_REGEX(rule) == Len(rule) = 4 /\ rule[1] = "-A" /\ rule[3] = "-j"

\* What "-S <chain>" prints: the policy of the chain, then its rules.
listChain(chain) == <<<<"-P", chain, "ACCEPT">>>> \o iptables.chains[chain]

\* A listing that finds nothing.
findExistingChildChains_none(parentChain, kList) == {}

\* A listing whose failure goes unnoticed: the output is parsed all the same.
findExistingChildChains_unchecked(parentChain, kList) ==
    {rule[4] : rule \in {r \in Range(listChain(parentChain)) :
                            CHILD_CHAIN_REGEX(r) /\ r[2] = parentChain}}

\* The children the listing shows as linked; none when the listing fails.
findExistingChildChains(parentChain, kList) ==
    IF kList # OK THEN {}
    ELSE {rule[4] : rule \in {r \in Range(listChain(parentChain)) :
                                 CHILD_CHAIN_REGEX(r) /\ r[2] = parentChain}}

\* The lines for the children from the i-th on, the last child first.
RECURSIVE childChainLines_lastFirst(_, _, _, _)
childChainLines_lastFirst(parentChain, childChains, existingChildChains, i) ==
    IF i > Len(childChains) THEN <<>>
    ELSE childChainLines_lastFirst(parentChain, childChains, existingChildChains, i + 1)
         \o <<<<":", childChains[i], "-">>>>
         \o (IF childChains[i] \notin existingChildChains
             THEN <<CHILD_CHAIN_TEMPLATE(parentChain, childChains[i])>> ELSE <<>>)

\* The lines createChildChains emits for the children from the i-th on.
RECURSIVE childChainLines(_, _, _, _)
childChainLines(parentChain, childChains, existingChildChains, i) ==
    IF i > Len(childChains) THEN <<>>
    ELSE <<<<":", childChains[i], "-">>>>
         \o (IF childChains[i] \notin existingChildChains
             THEN <<CHILD_CHAIN_TEMPLATE(parentChain, childChains[i])>> ELSE <<>>)
         \o childChainLines(parentChain, childChains, existingChildChains, i + 1)

\* The batch of createChildChains between "*<table>" and "COMMIT".
createChildChainsCommand(parentChain, childChains, exclusive, existingChildChains) ==
    (IF exclusive THEN <<<<":", parentChain, "-">>, <<"-F", parentChain>>>> ELSE <<>>)
    \o childChainLines(parentChain, childChains, existingChildChains, 1)

\* The chains the kernel provides; ":<chain> -" leaves them as they are.
BuiltinChains == {"INPUT", "FORWARD", "OUTPUT", "PREROUTING", "POSTROUTING"}

\* One line of a batch applied to the chains of a table.
applyLine(chains, line) ==
    IF line[1] = ":"
    THEN IF line[2] \in BuiltinChains THEN chains
         ELSE [c \in DOMAIN chains \cup {line[2]} |-> IF c = line[2] THEN <<>> ELSE chains[c]]
    ELSE IF line[1] = "-F" THEN [chains EXCEPT ![line[2]] = <<>>]
    ELSE [chains EXCEPT ![line[2]] = Append(@, line)]

RECURSIVE applyBatch(_, _)
applyBatch(chains, command) ==
    IF command = <<>> THEN chains
    ELSE applyBatch(applyLine(chains, Head(command)), Tail(command))

\* The call concerns the parent chain and the family the model keeps.
watches(target, table, parentChain) ==
    /\ iptables.family \in FamiliesOf(target)
    /\ iptables.table = table
    /\ iptables.parentChain = parentChain

\* kList is the result of the listing, kExec that of the batch.
createChildChains(target, table, parentChain, childChains, exclusive, kList, kExec) ==
    /\ installs < MaxInstalls
    /\ watches(target, table, parentChain)
    /\ IF ~exclusive /\ target = V4V6
       THEN /\ pc' = "aborted"
            /\ last' = [op |-> "createChildChains", ret |-> "abort"]
            /\ UNCHANGED <<iptables, installs>>
       ELSE LET existingChildChains ==
                    IF exclusive THEN {} ELSE findExistingChildChains(parentChain, kList)
                command == createChildChainsCommand(parentChain, childChains, exclusive,
                                                    existingChildChains)
            IN  /\ iptables' = IF kExec = OK
                               THEN [iptables EXCEPT !.chains = applyBatch(@, command)]
                               ELSE iptables
                /\ installs' = installs + 1
                /\ last' = [op |-> "createChildChains", parentChain |-> parentChain,
                            childChains |-> childChains, exclusive |-> exclusive,
                            listing |-> IF exclusive THEN OK ELSE kList,
                            command |-> command, exec |-> kExec]
                /\ pc' = pc
    /\ UNCHANGED <<initCalls, exitStatus>>
    /\ UNCHANGED <<registry, nameservers, tcpSocketMonitor, threading>>

\* The outcomes of a call of the packet-filter executor.
ExecResults == {OK, "-1"}

\* Sequences over S of length at most n.
RECURSIVE SeqsUpTo(_, _)
SeqsUpTo(S, n) ==
    IF n = 0 THEN {<<>>}
    ELSE SeqsUpTo(S, n - 1) \cup {Append(q, x) : q \in SeqsUpTo(S, n - 1), x \in S}

\* Rules a parent chain may hold before an install: links to the listed
\* children, a link with a match in front, and rules of vendor code.
PriorRules(parentChain, childChains) ==
    {CHILD_CHAIN_TEMPLATE(parentChain, c) : c \in Range(childChains)}
    \cup {<<"-A", parentChain, "-o", "wlan0", "-j", childChains[1]>>,
          <<"-A", parentChain, "-j", "vendor_chain">>,
          <<"-A", parentChain, "-o", "wlan0", "-j", "DROP">>}

\* The rule a child chain left over from an earlier run holds.
staleRule(childChain) == <<"-A", childChain, "-j", "DROP">>

\* The listed children the rules jump to.
linkedIn(rules, childChains) ==
    {c \in Range(childChains) : \E r \in Range(rules) : r[Len(r)] = c}

\* Any prior content of one parent chain in one family: the chains a rule
\* jumps to exist.
InitChains ==
    /\ Constructed
    /\ NoThreads
    /\ nameservers = {}
    /\ installs = 0
    /\ pc = "initChildChains"
    /\ initCalls = <<>>
    /\ exitStatus = <<>>
    /\ \E family \in {V4, V6}, i \in DOMAIN initChildChainsCalls :
          LET call == initChildChainsCalls[i] IN
          /\ family \in FamiliesOf(call.target)
          /\ \E prior \in SeqsUpTo(PriorRules(call.parentChain, call.childChains),
                                   MaxPriorRules),
                present \in SUBSET Range(call.childChains) :
                /\ linkedIn(prior, call.childChains) \subseteq present
                /\ iptables =
                      [family |-> family, table |-> call.table,
                       parentChain |-> call.parentChain,
                       chains |->
                          [c \in {call.parentChain, "vendor_chain"} \cup present |->
                              IF c = call.parentChain THEN prior
                              ELSE IF c \in present THEN <<staleRule(c)>> ELSE <<>>]]

NextChains ==
    \/ \E i \in DOMAIN initChildChainsCalls, kList \in ExecResults, kExec \in ExecResults :
          LET call == initChildChainsCalls[i] IN
          createChildChains(call.target, call.table, call.parentChain, call.childChains,
                            call.exclusive, kList, kExec)

SpecChains == InitChains /\ [][NextChains]_vars

(***************************************************************************)
(* The init sequence: Controllers::init and initIptablesRules.             *)
(* A step is the call it makes; pc names the step to run next.             *)
(***************************************************************************)
\* The batch of setupConnmarkIptablesHooks between "*mangle" and "COMMIT".
setupConnmarkIptablesHooksCommand ==
    << <<"-A", "connmark_mangle_INPUT", "-m", "connmark", "--mark", "0/0x000FFFFF",
         "-j", "CONNMARK", "--save-mark", "--ctmask", "0x000FFFFF", "--nfmask", "0x000FFFFF">>,
       <<"-A", "connmark_mangle_OUTPUT", "-m", "connmark", "--mark", "0/0x000FFFFF",
         "-j", "CONNMARK", "--save-mark", "--ctmask", "0x000FFFFF", "--nfmask", "0x000FFFFF">> >>

\* A sequence that runs the strict hooks before the idle-timer hooks.
stepAfter_strictFirst(step) ==
    CASE step = "initChildChains" -> "setupOemIptablesHook"
      [] step = "setupOemIptablesHook" -> "firewallCtrl.setupIptablesHooks"
      [] step = "firewallCtrl.setupIptablesHooks" -> "tetherCtrl.setupIptablesHooks"
      [] step = "tetherCtrl.setupIptablesHooks" -> "bandwidthCtrl.setupIptablesHooks"
      [] step = "bandwidthCtrl.setupIptablesHooks" -> "strictCtrl.setupIptablesHooks"
      [] step = "strictCtrl.setupIptablesHooks" -> "idletimerCtrl.setupIptablesHooks"
      [] step = "idletimerCtrl.setupIptablesHooks" -> "setupConnmarkIptablesHooks"
      [] step = "setupConnmarkIptablesHooks" -> "bandwidthCtrl.enableBandwidthControl"
      [] step = "bandwidthCtrl.enableBandwidthControl" -> "RouteController::Init"
      [] step = "RouteController::Init" -> "XfrmController::Init"
      [] OTHER -> "done"

\* The statement that follows a step in initIptablesRules and init.
stepAfter(step) ==
    CASE step = "initChildChains" -> "setupOemIptablesHook"
      [] step = "setupOemIptablesHook" -> "firewallCtrl.setupIptablesHooks"
      [] step = "firewallCtrl.setupIptablesHooks" -> "tetherCtrl.setupIptablesHooks"
      [] step = "tetherCtrl.setupIptablesHooks" -> "bandwidthCtrl.setupIptablesHooks"
      [] step = "bandwidthCtrl.setupIptablesHooks" -> "idletimerCtrl.setupIptablesHooks"
      [] step = "idletimerCtrl.setupIptablesHooks" -> "strictCtrl.setupIptablesHooks"
      [] step = "strictCtrl.setupIptablesHooks" -> "setupConnmarkIptablesHooks"
      [] step = "setupConnmarkIptablesHooks" -> "bandwidthCtrl.enableBandwidthControl"
      [] step = "bandwidthCtrl.enableBandwidthControl" -> "RouteController::Init"
      [] step = "RouteController::Init" -> "XfrmController::Init"
      [] OTHER -> "done"

\* The steps of initIptablesRules whose sub-controller submits its own batch.
HookSteps ==
    {"setupOemIptablesHook", "firewallCtrl.setupIptablesHooks",
     "tetherCtrl.setupIptablesHooks", "bandwidthCtrl.setupIptablesHooks",
     "idletimerCtrl.setupIptablesHooks", "strictCtrl.setupIptablesHooks"}

\* An exit with the code of the first init call.
exitCodeOf_alwaysOne(step) == 1

\* The argument of exit() after a failure of the step; 0 when init goes on.
exitCodeOf(step) ==
    CASE step = "bandwidthCtrl.enableBandwidthControl" -> 1
      [] step = "RouteController::Init" -> 2
      [] step = "XfrmController::Init" -> 3
      [] OTHER -> 0

\* A step whose result init ignores: it records the call and goes on.
proceed(call) ==
    /\ initCalls' = Append(initCalls, call)
    /\ pc' = stepAfter(pc)
    /\ UNCHANGED exitStatus

\* A step whose failure makes init call exit().
proceedOrExit(call) ==
    /\ initCalls' = Append(initCalls, call)
    /\ IF call.ret # OK
       THEN pc' = "exited" /\ exitStatus' = <<exitCodeOf(pc)>>
       ELSE pc' = stepAfter(pc) /\ UNCHANGED exitStatus

InitStepFrame ==
    /\ last' = [op |-> pc, ret |-> initCalls'[Len(initCalls')].ret]
    /\ UNCHANGED <<iptables, installs>>
    /\ UNCHANGED <<registry, nameservers, tcpSocketMonitor, threading>>

\* k is "-1" when one of the batches of the createChildChains calls is rejected.
initChildChains(k) ==
    /\ pc = "initChildChains"
    /\ proceed([fn |-> "initChildChains", ret |-> k])
    /\ InitStepFrame

setupIptablesHooks(k) ==
    /\ pc \in HookSteps
    /\ proceed([fn |-> pc, ret |-> k])
    /\ InitStepFrame

setupConnmarkIptablesHooks(k) ==
    /\ pc = "setupConnmarkIptablesHooks"
    /\ proceed([fn |-> "setupConnmarkIptablesHooks", target |-> V4V6, table |-> "mangle",
                command |-> setupConnmarkIptablesHooksCommand, ret |-> k])
    /\ InitStepFrame

enableBandwidthControl(k) ==
    /\ pc = "bandwidthCtrl.enableBandwidthControl"
    /\ proceedOrExit([fn |-> "bandwidthCtrl.enableBandwidthControl", ret |-> k])
    /\ InitStepFrame

RouteControllerInit(k) ==
    /\ pc = "RouteController::Init"
    /\ proceedOrExit([fn |-> "RouteController::Init", localNetId |-> LOCAL_NET_ID, ret |-> k])
    /\ InitStepFrame

XfrmControllerInit(k) ==
    /\ pc = "XfrmController::Init"
    /\ proceedOrExit([fn |-> "XfrmController::Init", ret |-> k])
    /\ InitStepFrame

\* Controllers::init() is called on the constructed Controllers object.
InitSequence ==
    /\ Constructed
    /\ NoThreads
    /\ nameservers = {}
    /\ iptables = <<>>
    /\ installs = 0
    /\ pc = "initChildChains"
    /\ initCalls = <<>>
    /\ exitStatus = <<>>

NextSequence ==
    \/ \E k \in ExecResults : initChildChains(k)
    \/ \E k \in ExecResults : setupIptablesHooks(k)
    \/ \E k \in ExecResults : setupConnmarkIptablesHooks(k)
    \/ \E k \in KernelResults : enableBandwidthControl(k)
    \/ \E k \in KernelResults : RouteControllerInit(k)
    \/ \E k \in KernelResults : XfrmControllerInit(k)

SpecSequence == InitSequence /\ [][NextSequence]_vars

(***************************************************************************)
(* Routes: addRoute, updateRoute and removeRoute go through modifyRoute.   *)
(***************************************************************************)
RouteOperations == {"ROUTE_ADD", "ROUTE_UPDATE", "ROUTE_REMOVE"}

\* The table modifyRoute chooses.
tableTypeOf(netId, legacy, uid) ==
    IF netId = LOCAL_NET_ID THEN "LOCAL_NETWORK"
    ELSE IF legacy
    THEN IF BitAnd(getPermissionForUserLocked(uid), PERMISSION_SYSTEM) = PERMISSION_SYSTEM
         THEN "LEGACY_SYSTEM" ELSE "LEGACY_NETWORK"
    ELSE "INTERFACE"

\* The function of the route controller the operation goes to.
routeControllerCall(op) ==
    CASE op = "ROUTE_ADD" -> "RouteController::addRoute"
      [] op = "ROUTE_UPDATE" -> "RouteController::updateRoute"
      [] op = "ROUTE_REMOVE" -> "RouteController::removeRoute"

\* k is what the route controller returns when the route is forwarded to it;
\* forwarded is the call made to it, <<>> when there is none.
modifyRoute(netId, iface, op, legacy, uid, k) ==
    /\ last' = [op |-> "modifyRoute", netId |-> netId, iface |-> iface, legacy |-> legacy,
                uid |-> uid,
                forwarded |-> IF modifyRouteCheck(netId, iface) # OK THEN <<>>
                              ELSE <<routeControllerCall(op), iface,
                                     tableTypeOf(netId, legacy, uid)>>,
                ret |-> IF modifyRouteCheck(netId, iface) # OK
                        THEN modifyRouteCheck(netId, iface) ELSE k]
    /\ UNCHANGED <<registry, nameservers, tcpSocketMonitor>>

RouteNetArgs == {LOCAL_NET_ID} \cup UserNetIds

NextRoute ==
    \/ \E netId \in RouteNetArgs :
          createPhysicalNetwork(netId, PERMISSION_NONE) /\ UidStateUnchanged /\ UNCHANGED <<startup, threading>>
    \/ \E netId \in RouteNetArgs, iface \in Ifaces :
          addInterfaceToNetwork(netId, iface, OK) /\ UidStateUnchanged /\ UNCHANGED <<startup, threading>>
    \/ \E netId \in RouteNetArgs, iface \in Ifaces :
          removeInterfaceFromNetwork(netId, iface, OK) /\ UidStateUnchanged /\ UNCHANGED <<startup, threading>>
    \/ \E permission \in Permissions, uids \in UidListArgs :
          setPermissionForUsers(permission, uids) /\ UNCHANGED <<startup, threading>>
    \/ \E netId \in RouteNetArgs, iface \in Ifaces, op \in RouteOperations,
          legacy \in BOOLEAN, uid \in GrantUidArgs, k \in KernelResults :
          modifyRoute(netId, iface, op, legacy, uid, k) /\ UNCHANGED <<startup, threading>>

SpecRoute == Init /\ [][NextRoute]_vars

(***************************************************************************)
(* Callers on parallel threads.  Every public method takes mRWLock at its  *)
(* start and holds it until it returns; the steps below are the places a   *)
(* method can stand at between two accesses of the registry.               *)
(***************************************************************************)
Threads == 1 .. NumThreads

\* The methods the threads call: those that read and those that change the registry.
Readers == {"getNetworkContext", "isUidAllowed", "getDefaultNetwork"}
Mutators == {"createPhysicalNetwork", "setDefaultNetwork", "addInterfaceToNetwork",
             "destroyNetwork", "setNetworkAllowlist"}

\* Every method under the shared lock.
lockKind_allShared(op) == "ScopedRLock"

\* The lock the method declares as its first statement.
lockKind(op) ==
    CASE op = "getDefaultNetwork" -> "ScopedRLock"
      [] op = "setDefaultNetwork" -> "ScopedWLock"
      [] op = "getNetworkContext" -> "ScopedRLock"
      [] op = "createPhysicalNetwork" -> "ScopedWLock"
      [] op = "destroyNetwork" -> "ScopedWLock"
      [] op = "addInterfaceToNetwork" -> "ScopedWLock"
      [] op = "setNetworkAllowlist" -> "ScopedWLock"
      [] op = "isUidAllowed" -> "ScopedRLock"
      [] op = "createPhysicalOemNetwork" -> "ScopedWLock"

\* The reader-writer lock: one writer alone, or any number of readers.
canLock(kind) ==
    IF kind = "ScopedWLock" THEN mRWLock = Unlocked ELSE mRWLock.writer = NoThread

lockedBy(t, kind) ==
    IF kind = "ScopedWLock" THEN [mRWLock EXCEPT !.writer = t]
    ELSE [mRWLock EXCEPT !.readers = @ \cup {t}]

unlockedBy(t) ==
    [writer |-> IF mRWLock.writer = t THEN NoThread ELSE mRWLock.writer,
     readers |-> mRWLock.readers \ {t}]

\* A thread in no call.
Idle == [op |-> "idle", pc |-> "idle", netId |-> NETID_UNSET, uid |-> FirstAppUid,
         iface |-> 1, rangeConfigs |-> <<>>, nc |-> <<>>, seen |-> <<>>, expected |-> <<>>,
         calls |-> <<>>, ret |-> OK]

ThreadNetArgs == {NETID_UNSET, MIN_NET_ID}
ThreadAllowlists == {<<[netId |-> MIN_NET_ID, uidRanges |-> {<<FirstAppUid, FirstAppUid>>}]>>}

\* The calls a thread can make.
ThreadCalls ==
    {[Idle EXCEPT !.op = op, !.netId = netId, !.rangeConfigs = rangeConfigs] :
        op \in Readers \cup Mutators, netId \in ThreadNetArgs,
        rangeConfigs \in ThreadAllowlists}

standsAt(t, op, pos) == threads[t].op = op /\ threads[t].pc = pos
goto(t, pos) == threads' = [threads EXCEPT ![t].pc = pos]

\* What destroyNetwork(netId) and setNetworkAllowlist(rangeConfigs) leave when
\* they run alone from the present state with a kernel that accepts every
\* change: <<registry, tcpSocketMonitor>>.
serialOutcome(call) ==
    IF call.op = "destroyNetwork" /\ destroyNetworkCheck(call.netId) = OK
    THEN LET networks == [n \in DOMAIN mNetworks \ {call.netId} |-> mNetworks[n]]
         IN  <<<<networks, defaultAfterDestroy(call.netId), mUsers, mProtectableUsers,
                 purgeLastNetId(call.netId), mAddressToIfindices>>,
               updateTcpSocketMonitorPolling(networks)>>
    ELSE IF call.op = "setNetworkAllowlist" /\
            setNetworkAllowlistCheck([i \in DOMAIN call.rangeConfigs |->
                                        call.rangeConfigs[i].netId]) = OK
    THEN <<<<applyAllowlists(clearAllowedUidsForAllNetworksLocked(mNetworks),
                             call.rangeConfigs, 1),
             mDefaultNetId, mUsers, mProtectableUsers, mIfindexToLastNetId,
             mAddressToIfindices>>,
           tcpSocketMonitor>>
    ELSE <<registry, tcpSocketMonitor>>

\* The first statement of a public method: the thread waits until the lock
\* can be taken in the method's mode.
ScopedLock(t, call) ==
    /\ threads[t].op = "idle"
    /\ canLock(lockKind(call.op))
    /\ mRWLock' = lockedBy(t, lockKind(call.op))
    /\ threads' = [threads EXCEPT ![t] = [call EXCEPT !.pc = "locked",
                                                      !.expected = serialOutcome(call)]]
    /\ UNCHANGED <<registry, nameservers, tcpSocketMonitor, last, startup, committed>>

\* The return of the method: the lock object goes out of scope.
ScopedUnlock(t) ==
    /\ threads[t].pc = "return"
    /\ mRWLock' = unlockedBy(t)
    /\ committed' = IF threads[t].op \in Mutators THEN registry ELSE committed
    /\ threads' = [threads EXCEPT ![t] = Idle]
    /\ UNCHANGED <<registry, nameservers, tcpSocketMonitor, last, startup>>

ThreadFrame == UNCHANGED <<startup, mRWLock, committed>>

\* Mutators whose body makes its changes of the registry in one place.
createPhysicalNetworkBody(t) ==
    /\ standsAt(t, "createPhysicalNetwork", "locked")
    /\ createPhysicalNetwork(threads[t].netId, PERMISSION_NONE)
    /\ UidStateUnchanged
    /\ goto(t, "return")
    /\ ThreadFrame

setDefaultNetworkBody(t) ==
    /\ standsAt(t, "setDefaultNetwork", "locked")
    /\ setDefaultNetwork(threads[t].netId, OK, OK)
    /\ UidStateUnchanged
    /\ goto(t, "return")
    /\ ThreadFrame

addInterfaceToNetworkBody(t) ==
    /\ standsAt(t, "addInterfaceToNetwork", "locked")
    /\ addInterfaceToNetwork(threads[t].netId, threads[t].iface, OK)
    /\ UidStateUnchanged
    /\ goto(t, "return")
    /\ ThreadFrame

\* destroyNetwork, statement by statement: the checks and clearInterfaces,
destroyNetworkClear(t) ==
    /\ standsAt(t, "destroyNetwork", "locked")
    /\ IF destroyNetworkCheck(threads[t].netId) # OK
       THEN /\ Returned("destroyNetwork", destroyNetworkCheck(threads[t].netId))
            /\ goto(t, "return")
            /\ UNCHANGED mNetworks
       ELSE /\ mNetworks' = [mNetworks EXCEPT ![threads[t].netId].interfaces = {}]
            /\ goto(t, "default")
            /\ UNCHANGED last
    /\ UNCHANGED <<mDefaultNetId, mUsers, mProtectableUsers, mIfindexToLastNetId,
                   mAddressToIfindices, nameservers, tcpSocketMonitor>>
    /\ ThreadFrame

\* the reset of the default network,
destroyNetworkDefault(t) ==
    /\ standsAt(t, "destroyNetwork", "default")
    /\ mNetworks' = IF mDefaultNetId = threads[t].netId
                    THEN [mNetworks EXCEPT ![threads[t].netId] = removeAsDefault(@, OK)]
                    ELSE mNetworks
    /\ mDefaultNetId' = defaultAfterDestroy(threads[t].netId)
    /\ goto(t, "erase")
    /\ UNCHANGED <<mUsers, mProtectableUsers, mIfindexToLastNetId, mAddressToIfindices,
                   nameservers, tcpSocketMonitor, last>>
    /\ ThreadFrame

\* mNetworks.erase(netId),
destroyNetworkErase(t) ==
    /\ standsAt(t, "destroyNetwork", "erase")
    /\ mNetworks' = [n \in DOMAIN mNetworks \ {threads[t].netId} |-> mNetworks[n]]
    /\ goto(t, "purge")
    /\ UNCHANGED <<mDefaultNetId, mUsers, mProtectableUsers, mIfindexToLastNetId,
                   mAddressToIfindices, nameservers, tcpSocketMonitor, last>>
    /\ ThreadFrame

\* the purge of mIfindexToLastNetId,
destroyNetworkPurge(t) ==
    /\ standsAt(t, "destroyNetwork", "purge")
    /\ mIfindexToLastNetId' = purgeLastNetId(threads[t].netId)
    /\ goto(t, "monitor")
    /\ UNCHANGED <<mNetworks, mDefaultNetId, mUsers, mProtectableUsers,
                   mAddressToIfindices, nameservers, tcpSocketMonitor, last>>
    /\ ThreadFrame

\* and updateTcpSocketMonitorPolling.
destroyNetworkMonitor(t) ==
    /\ standsAt(t, "destroyNetwork", "monitor")
    /\ tcpSocketMonitor' = updateTcpSocketMonitorPolling(mNetworks)
    /\ Returned("destroyNetwork", OK)
    /\ goto(t, "return")
    /\ UNCHANGED <<registry, nameservers>>
    /\ ThreadFrame

\* setNetworkAllowlist: the validation pass and the clearing of every allowlist,
setNetworkAllowlistClear(t) ==
    /\ standsAt(t, "setNetworkAllowlist", "locked")
    /\ IF setNetworkAllowlistCheck([i \in DOMAIN threads[t].rangeConfigs |->
                                      threads[t].rangeConfigs[i].netId]) # OK
       THEN /\ Returned("setNetworkAllowlist", ENONET)
            /\ goto(t, "return")
            /\ UNCHANGED mNetworks
       ELSE /\ mNetworks' = clearAllowedUidsForAllNetworksLocked(mNetworks)
            /\ goto(t, "apply")
            /\ UNCHANGED last
    /\ UNCHANGED <<mDefaultNetId, mUsers, mProtectableUsers, mIfindexToLastNetId,
                   mAddressToIfindices, nameservers, tcpSocketMonitor>>
    /\ ThreadFrame

\* then the loop that sets the allowlists of the configs.
setNetworkAllowlistApply(t) ==
    /\ standsAt(t, "setNetworkAllowlist", "apply")
    /\ mNetworks' = applyAllowlists(mNetworks, threads[t].rangeConfigs, 1)
    /\ Returned("setNetworkAllowlist", OK)
    /\ goto(t, "return")
    /\ UNCHANGED <<mDefaultNetId, mUsers, mProtectableUsers, mIfindexToLastNetId,
                   mAddressToIfindices, nameservers, tcpSocketMonitor>>
    /\ ThreadFrame

ReaderFrame == UNCHANGED <<registry, nameservers, tcpSocketMonitor, startup, mRWLock,
                           committed>>

\* getNetworkContext: the app fields are computed first,
getNetworkContextApp(t) ==
    /\ standsAt(t, "getNetworkContext", "locked")
    /\ LET nc == getNetworkContextLocked(threads[t].netId, threads[t].uid)
       IN  threads' = [threads EXCEPT ![t].pc = "dns",
                                      ![t].nc = [app_netid |-> nc.app_netid,
                                                 app_mark |-> nc.app_mark,
                                                 uid |-> nc.uid],
                                      ![t].seen = registry]
    /\ UNCHANGED last
    /\ ReaderFrame

\* then the dns fields.
getNetworkContextDns(t) ==
    /\ standsAt(t, "getNetworkContext", "dns")
    /\ LET nc == getNetworkContextLocked(threads[t].netId, threads[t].uid)
           filled == [app_netid |-> threads[t].nc.app_netid,
                      app_mark |-> threads[t].nc.app_mark,
                      dns_netid |-> nc.dns_netid,
                      dns_mark |-> nc.dns_mark,
                      uid |-> threads[t].nc.uid]
       IN  /\ threads' = [threads EXCEPT ![t].pc = "return", ![t].nc = filled]
           /\ last' = [op |-> "getNetworkContext", netId |-> threads[t].netId,
                       uid |-> threads[t].uid, nc |-> filled]
    /\ ReaderFrame

isUidAllowedBody(t) ==
    /\ standsAt(t, "isUidAllowed", "locked")
    /\ last' = [op |-> "isUidAllowed", netId |-> threads[t].netId, uid |-> threads[t].uid,
                ret |-> isUidAllowed(threads[t].netId, threads[t].uid)]
    /\ threads' = [threads EXCEPT ![t].pc = "return", ![t].seen = registry]
    /\ ReaderFrame

getDefaultNetworkBody(t) ==
    /\ standsAt(t, "getDefaultNetwork", "locked")
    /\ Returned("getDefaultNetwork", getDefaultNetwork)
    /\ threads' = [threads EXCEPT ![t].pc = "return", ![t].seen = registry]
    /\ ReaderFrame

InitThreads ==
    /\ StartupDone
    /\ Constructed
    /\ nameservers = {}
    /\ mRWLock = Unlocked
    /\ threads = [t \in Threads |-> Idle]
    /\ committed = registry

NextThreads ==
    \/ \E t \in Threads, call \in ThreadCalls : ScopedLock(t, call)
    \/ \E t \in Threads : ScopedUnlock(t)
    \/ \E t \in Threads : createPhysicalNetworkBody(t)
    \/ \E t \in Threads : setDefaultNetworkBody(t)
    \/ \E t \in Threads : addInterfaceToNetworkBody(t)
    \/ \E t \in Threads : destroyNetworkClear(t)
    \/ \E t \in Threads : destroyNetworkDefault(t)
    \/ \E t \in Threads : destroyNetworkErase(t)
    \/ \E t \in Threads : destroyNetworkPurge(t)
    \/ \E t \in Threads : destroyNetworkMonitor(t)
    \/ \E t \in Threads : setNetworkAllowlistClear(t)
    \/ \E t \in Threads : setNetworkAllowlistApply(t)
    \/ \E t \in Threads : getNetworkContextApp(t)
    \/ \E t \in Threads : getNetworkContextDns(t)
    \/ \E t \in Threads : isUidAllowedBody(t)
    \/ \E t \in Threads : getDefaultNetworkBody(t)

SpecThreads == InitThreads /\ [][NextThreads]_vars

(***************************************************************************)
(* setDefaultNetwork, statement by statement.  calls is the list of the    *)
(* addAsDefault / removeAsDefault calls it has made on networks so far.    *)
(***************************************************************************)
\* removeAsDefault on the previous default ahead of addAsDefault on the new one.
switchOrder_removeFirst == <<"removeAsDefault", "addAsDefault">>

\* The order of the two blocks of setDefaultNetwork.
switchOrder == <<"addAsDefault", "removeAsDefault">>

\* The caller of the switch.
Caller == Min(Threads)

\* mDefaultNetId when the call took the lock.
entryDefault(t) == threads[t].expected[1][2]

\* The early return of a call that names the present default, and the checks
\* of the new network.
setDefaultNetworkEnter(netId) ==
    /\ threads[Caller].op = "idle"
    /\ mRWLock' = lockedBy(Caller, lockKind("setDefaultNetwork"))
    /\ LET call == [Idle EXCEPT !.op = "setDefaultNetwork", !.netId = netId,
                                !.expected = <<registry, tcpSocketMonitor>>]
       IN  IF netId = mDefaultNetId
           THEN /\ threads' = [threads EXCEPT ![Caller] = [call EXCEPT !.pc = "return"]]
                /\ Returned("setDefaultNetwork", OK)
           ELSE IF setDefaultNetworkCheck(netId) # OK
           THEN /\ threads' = [threads EXCEPT ![Caller] = [call EXCEPT !.pc = "return"]]
                /\ Returned("setDefaultNetwork", setDefaultNetworkCheck(netId))
           ELSE /\ threads' = [threads EXCEPT ![Caller] = [call EXCEPT !.pc = "first"]]
                /\ UNCHANGED last
    /\ UNCHANGED <<registry, nameservers, tcpSocketMonitor, startup, committed>>

\* One block of the switch: what is addAsDefault on the new network (skipped
\* for NETID_UNSET) or removeAsDefault on the previous default (skipped when
\* there was none); an error returns at once.
switchBlock(what, k, after) ==
    LET t == threads[Caller]
        target == IF what = "addAsDefault" THEN t.netId ELSE mDefaultNetId
        called == Append(t.calls, [call |-> what, netId |-> target])
    IN  /\ UNCHANGED <<mDefaultNetId, mUsers, mProtectableUsers, mIfindexToLastNetId,
                       mAddressToIfindices, nameservers, tcpSocketMonitor, startup,
                       mRWLock, committed>>
        /\ IF target = NETID_UNSET
           THEN /\ goto(Caller, after)
                /\ UNCHANGED <<mNetworks, last>>
           ELSE IF what = "removeAsDefault" /\
                   (~isValidNetworkLocked(target) \/ ~isPhysical(mNetworks[target]))
           THEN /\ goto(Caller, "return")
                /\ Returned("setDefaultNetwork", ESRCH)
                /\ UNCHANGED mNetworks
           ELSE IF KernelOutcome(mNetworks[target], k) # OK
           THEN /\ threads' = [threads EXCEPT ![Caller].pc = "return",
                                              ![Caller].calls = called]
                /\ Returned("setDefaultNetwork", KernelOutcome(mNetworks[target], k))
                /\ UNCHANGED mNetworks
           ELSE /\ threads' = [threads EXCEPT ![Caller].pc = after,
                                              ![Caller].calls = called]
                /\ mNetworks' = [mNetworks EXCEPT ![target] =
                                    IF what = "addAsDefault" THEN addAsDefault(@, k)
                                    ELSE removeAsDefault(@, k)]
                /\ UNCHANGED last

setDefaultNetworkFirst(k) ==
    /\ standsAt(Caller, "setDefaultNetwork", "first")
    /\ switchBlock(switchOrder[1], k, "second")

setDefaultNetworkSecond(k) ==
    /\ standsAt(Caller, "setDefaultNetwork", "second")
    /\ switchBlock(switchOrder[2], k, "assign")

\* mDefaultNetId = netId; return 0;
setDefaultNetworkAssign ==
    /\ standsAt(Caller, "setDefaultNetwork", "assign")
    /\ mDefaultNetId' = threads[Caller].netId
    /\ Returned("setDefaultNetwork", OK)
    /\ goto(Caller, "return")
    /\ UNCHANGED <<mNetworks, mUsers, mProtectableUsers, mIfindexToLastNetId,
                   mAddressToIfindices, nameservers, tcpSocketMonitor, startup,
                   mRWLock, committed>>

\* The calls made between two switches run to their end in one step.
BetweenSwitches ==
    /\ threads[Caller].op = "idle"
    /\ UidStateUnchanged
    /\ UNCHANGED <<startup, threading>>

InitSwitch ==
    /\ StartupDone
    /\ Constructed
    /\ nameservers = {}
    /\ mRWLock = Unlocked
    /\ threads = [t \in {Caller} |-> Idle]
    /\ committed = registry

NextSwitch ==
    \/ \E netId \in NetIdArgs : setDefaultNetworkEnter(netId)
    \/ \E k \in KernelResults : setDefaultNetworkFirst(k)
    \/ \E k \in KernelResults : setDefaultNetworkSecond(k)
    \/ setDefaultNetworkAssign
    \/ ScopedUnlock(Caller)
    \/ \E netId \in UserNetIds :
          createPhysicalNetwork(netId, PERMISSION_NONE) /\ BetweenSwitches
    \/ \E netId \in UserNetIds, iface \in Ifaces :
          addInterfaceToNetwork(netId, iface, OK) /\ BetweenSwitches

SpecSwitch == InitSwitch /\ [][NextSwitch]_vars

(***************************************************************************)
(* Fallthrough routes of Virtual networks.  calls is the list of the       *)
(* RouteController calls a method made, in order, each with its result.    *)
(***************************************************************************)
\* The elements of a set of interfaces in the order of iteration.
RECURSIVE inOrder(_)
inOrder(S) == IF S = {} THEN <<>> ELSE <<Min(S)>> \o inOrder(S \ {Min(S)})

\* The loop of modifyFallthroughLocked from position i of the interfaces on;
\* ks gives the route controller's result for each interface.
RECURSIVE fallthroughLoop(_, _, _, _, _, _)
fallthroughLoop(vpnNetId, add, permission, ifaces, ks, i) ==
    IF i > Len(ifaces) THEN <<>>
    ELSE LET call == [op |-> IF add THEN "addVirtualNetworkFallthrough"
                             ELSE "removeVirtualNetworkFallthrough",
                      netId |-> vpnNetId, iface |-> ifaces[i],
                      permission |-> permission, ret |-> ks[ifaces[i]]]
         IN  IF call.ret # OK THEN <<call>>
             ELSE <<call>> \o fallthroughLoop(vpnNetId, add, permission, ifaces, ks, i + 1)

\* The calls modifyFallthroughLocked(vpnNetId, add) makes.
modifyFallthroughCalls(vpnNetId, add, ks) ==
    IF mDefaultNetId = NETID_UNSET \/ ~isValidNetworkLocked(mDefaultNetId)
       \/ ~isPhysical(mNetworks[mDefaultNetId])
    THEN <<>>
    ELSE fallthroughLoop(vpnNetId, add, mNetworks[mDefaultNetId].permission,
                         inOrder(mNetworks[mDefaultNetId].interfaces), ks, 1)

\* What modifyFallthroughLocked returns after these calls.
modifyFallthroughRet(calls) ==
    IF mDefaultNetId = NETID_UNSET THEN OK
    ELSE IF ~isValidNetworkLocked(mDefaultNetId) THEN ESRCH
    ELSE IF ~isPhysical(mNetworks[mDefaultNetId]) THEN EINVAL
    ELSE IF calls # <<>> /\ calls[Len(calls)].ret # OK THEN calls[Len(calls)].ret
    ELSE OK

\* createVirtualNetwork with the calls it makes.
createVirtualNetworkRoutes(netId, secure, vpnType, ks) ==
    LET check == createVirtualNetworkCheck(netId, vpnType)
        calls == IF check # OK THEN <<>> ELSE modifyFallthroughCalls(netId, TRUE, ks)
        ret == IF check # OK THEN check ELSE modifyFallthroughRet(calls)
    IN  /\ last' = [op |-> "createVirtualNetwork", netId |-> netId, vpnType |-> vpnType,
                    ret |-> ret, calls |-> calls]
        /\ mNetworks' = IF ret # OK THEN mNetworks
                        ELSE [n \in DOMAIN mNetworks \cup {netId} |->
                                IF n = netId
                                THEN NewNetwork("Virtual", PERMISSION_NONE, secure)
                                ELSE mNetworks[n]]
        /\ UNCHANGED <<mDefaultNetId, mIfindexToLastNetId, tcpSocketMonitor>>

\* destroyNetwork of a network that holds no interface, with the calls it makes.
destroyNetworkRoutes(netId, ks) ==
    /\ destroyNetworkCheck(netId) = OK => mNetworks[netId].interfaces = {}
    /\ LET check == destroyNetworkCheck(netId)
           calls == IF check = OK /\ mDefaultNetId # netId /\ isVirtual(mNetworks[netId])
                    THEN modifyFallthroughCalls(netId, FALSE, ks) ELSE <<>>
           ret == IF check # OK THEN check
                  ELSE IF mDefaultNetId # netId /\ isVirtual(mNetworks[netId])
                  THEN modifyFallthroughRet(calls)
                  ELSE OK
           networks == [n \in DOMAIN mNetworks \ {netId} |-> mNetworks[n]]
       IN  /\ last' = [op |-> "destroyNetwork", netId |-> netId, ret |-> ret,
                       calls |-> calls]
           /\ IF check # OK
              THEN UNCHANGED <<mNetworks, mDefaultNetId, mIfindexToLastNetId,
                               tcpSocketMonitor>>
              ELSE /\ mNetworks' = networks
                   /\ mDefaultNetId' = defaultAfterDestroy(netId)
                   /\ mIfindexToLastNetId' = purgeLastNetId(netId)
                   /\ tcpSocketMonitor' = updateTcpSocketMonitorPolling(networks)

DefaultIfaces == 1 .. MaxDefaultIfaces
RouteResults == [DefaultIfaces -> {OK, "-EIO"}]

\* A Physical network that holds some interfaces, default or not yet, and
\* no other network created.
InitFallthrough ==
    /\ StartupDone
    /\ NoThreads
    /\ \E permission \in {PERMISSION_NONE, PERMISSION_SYSTEM}, ifaces \in SUBSET DefaultIfaces,
          isDefault \in BOOLEAN :
          /\ mNetworks = [n \in FixedNetIds \cup {MIN_NET_ID} |->
                            IF n = MIN_NET_ID
                            THEN [NewNetwork("Physical", permission, FALSE)
                                    EXCEPT !.interfaces = ifaces, !.isDefault = isDefault]
                            ELSE NetworksOf([u \in UserNetIds |-> Absent], {})[n]]
          /\ mDefaultNetId = IF isDefault THEN MIN_NET_ID ELSE NETID_UNSET
          /\ mIfindexToLastNetId = [i \in ifaces |-> MIN_NET_ID]
    /\ mUsers = << >>
    /\ mProtectableUsers = {<<AID_VPN, NETID_UNSET>>}
    /\ mAddressToIfindices = << >>
    /\ nameservers = {}
    /\ tcpSocketMonitor = "resumePolling"
    /\ last = [op |-> "createPhysicalNetwork", ret |-> OK]

NextFallthrough ==
    \/ \E netId \in NetIdArgs, secure \in BOOLEAN, vpnType \in VpnTypeArgs, ks \in RouteResults :
          /\ createVirtualNetworkRoutes(netId, secure, vpnType, ks)
          /\ UidStateUnchanged /\ UNCHANGED <<startup, threading>>
    \/ \E netId \in NetIdArgs, ks \in RouteResults :
          /\ destroyNetworkRoutes(netId, ks)
          /\ UidStateUnchanged /\ UNCHANGED <<startup, threading>>
    \/ \E netId \in NetIdArgs :
          /\ setDefaultNetwork(netId, OK, OK)
          /\ UidStateUnchanged /\ UNCHANGED <<startup, threading>>

SpecFallthrough == InitFallthrough /\ [][NextFallthrough]_vars

(***************************************************************************)
(* Who calls whom, and who takes the lock.  A thread is the stack of the   *)
(* functions it is in; it takes mRWLock when it enters a function that     *)
(* declares a scoped lock and gives it back when that function returns.    *)
(***************************************************************************)
ReadLocked == {"getDefaultNetwork", "getNetworkForUser", "getNetworkForConnect",
               "getNetworkContext", "getNetworkForInterface", "isVirtualNetwork",
               "getPermissionForUser", "checkUserNetworkAccess", "canProtect", "dump",
               "isUidAllowed", "modifyRoute"}
WriteLocked == {"setDefaultNetwork", "createPhysicalNetwork", "createPhysicalOemNetwork",
                "createVirtualNetwork", "destroyNetwork", "addInterfaceToNetwork",
                "removeInterfaceFromNetwork", "setPermissionForUsers",
                "setPermissionForNetworks", "addUsersToNetwork", "removeUsersFromNetwork",
                "addInterfaceAddress", "removeInterfaceAddress", "allowProtect",
                "denyProtect", "setNetworkAllowlist"}
\* Public methods that declare no lock of their own.
Forwarders == {"addRoute", "updateRoute", "removeRoute"}
PublicMethods == ReadLocked \cup WriteLocked \cup Forwarders

DelegateCallbacks == {"DelegateImpl::addFallthrough", "DelegateImpl::removeFallthrough"}

\* The callbacks taking the write lock themselves.
lockOf_callbacksLock(fn) ==
    IF fn \in ReadLocked THEN "ScopedRLock"
    ELSE IF fn \in WriteLocked \cup DelegateCallbacks THEN "ScopedWLock"
    ELSE "none"

\* The scoped lock a function declares.
lockOf(fn) ==
    IF fn \in ReadLocked THEN "ScopedRLock"
    ELSE IF fn \in WriteLocked THEN "ScopedWLock"
    ELSE "none"

\* The methods of a network that notify the registry through the delegate.
networkCalls(fn) ==
    IF fn \in {"PhysicalNetwork::setPermission", "Network::addInterface",
               "Network::removeInterface", "Network::clearInterfaces"}
    THEN DelegateCallbacks
    ELSE {}

\* The functions the body of fn calls.
callees(fn) ==
    CASE fn = "setDefaultNetwork" ->
            {"getNetworkLocked", "PhysicalNetwork::addAsDefault",
             "PhysicalNetwork::removeAsDefault"}
      [] fn = "getNetworkForUser" ->
            {"getVirtualNetworkForUserLocked", "getPhysicalOrUnreachableNetworkForUserLocked"}
      [] fn = "getNetworkForConnect" -> {"getNetworkForConnectLocked"}
      [] fn = "getNetworkContext" ->
            {"getNetworkForConnectLocked", "canProtectLocked", "getPermissionForUserLocked",
             "getNetworkForDnsLocked"}
      [] fn = "getNetworkForInterface" -> {"getNetworkForInterfaceLocked"}
      [] fn = "isVirtualNetwork" -> {"isVirtualNetworkLocked"}
      [] fn = "createPhysicalNetwork" -> {"createPhysicalNetworkLocked"}
      [] fn = "createPhysicalOemNetwork" ->
            {"isValidNetworkLocked", "createPhysicalNetworkLocked"}
      [] fn = "createVirtualNetwork" -> {"isValidNetworkLocked", "modifyFallthroughLocked"}
      [] fn = "destroyNetwork" ->
            {"isValidNetworkLocked", "getNetworkLocked", "Network::clearInterfaces",
             "PhysicalNetwork::removeAsDefault", "modifyFallthroughLocked",
             "updateTcpSocketMonitorPolling"}
      [] fn = "addInterfaceToNetwork" ->
            {"isValidNetworkLocked", "getNetworkForInterfaceLocked", "getNetworkLocked",
             "Network::addInterface"}
      [] fn = "removeInterfaceFromNetwork" ->
            {"isValidNetworkLocked", "getNetworkLocked", "Network::removeInterface"}
      [] fn = "getPermissionForUser" -> {"getPermissionForUserLocked"}
      [] fn = "checkUserNetworkAccess" -> {"checkUserNetworkAccessLocked"}
      [] fn = "setPermissionForNetworks" ->
            {"getNetworkLocked", "PhysicalNetwork::setPermission"}
      [] fn \in {"addUsersToNetwork", "removeUsersFromNetwork"} -> {"getNetworkLocked"}
      [] fn \in Forwarders -> {"modifyRoute"}
      [] fn = "modifyRoute" ->
            {"isValidNetworkLocked", "getNetworkForInterfaceLocked",
             "getPermissionForUserLocked"}
      [] fn = "removeInterfaceAddress" -> {"isVirtualNetworkLocked"}
      [] fn = "canProtect" -> {"canProtectLocked"}
      [] fn = "setNetworkAllowlist" ->
            {"getNetworkLocked", "clearAllowedUidsForAllNetworksLocked"}
      [] fn = "isUidAllowed" -> {"getNetworkLocked"}
      [] fn = "getNetworkForDnsLocked" ->
            {"getPhysicalOrUnreachableNetworkForUserLocked", "getVirtualNetworkForUserLocked",
             "checkUserNetworkAccessLocked", "getNetworkLocked"}
      [] fn = "getNetworkForConnectLocked" ->
            {"getPhysicalOrUnreachableNetworkForUserLocked"}
      [] fn = "isVirtualNetworkLocked" -> {"getNetworkLocked"}
      [] fn = "createPhysicalNetworkLocked" ->
            {"isValidNetworkLocked", "PhysicalNetwork::setPermission",
             "updateTcpSocketMonitorPolling"}
      [] fn = "canProtectLocked" -> {"getPermissionForUserLocked", "isProtectableLocked"}
      [] fn = "isValidNetworkLocked" -> {"getNetworkLocked"}
      [] fn = "checkUserNetworkAccessLocked" ->
            {"getNetworkLocked", "getPermissionForUserLocked",
             "getVirtualNetworkForUserLocked", "isProtectableLocked"}
      [] fn = "modifyFallthroughLocked" ->
            {"getNetworkLocked", "DelegateImpl::modifyFallthrough"}
      [] fn \in DelegateCallbacks -> {"DelegateImpl::modifyFallthroughOfAll"}
      [] fn = "DelegateImpl::modifyFallthroughOfAll" -> {"DelegateImpl::modifyFallthrough"}
      [] OTHER -> networkCalls(fn)

\* Every function reached from a public method.
RECURSIVE reachedFrom(_)
reachedFrom(fns) ==
    LET more == fns \cup UNION {callees(f) : f \in fns}
    IN  IF more = fns THEN fns ELSE reachedFrom(more)

Functions == reachedFrom(PublicMethods)

holdsLock(t) == mRWLock.writer = t \/ t \in mRWLock.readers

NotCalling == [stack |-> <<>>, pc |-> "idle"]

\* Thread t enters fn: a public method from outside, or a function the one
\* it is in calls.  A function that declares a lock waits for it; a thread
\* that already holds the lock waits for itself.
Call(t, fn) ==
    /\ threads[t].pc # "selfDeadlock"
    /\ LET stack == threads[t].stack
       IN  /\ IF stack = <<>> THEN fn \in PublicMethods
              ELSE fn \in callees(stack[Len(stack)])
           /\ IF lockOf(fn) = "none"
              THEN /\ threads' = [threads EXCEPT ![t] = [stack |-> Append(stack, fn),
                                                         pc |-> "running"]]
                   /\ UNCHANGED mRWLock
              ELSE IF holdsLock(t)
              THEN /\ threads' = [threads EXCEPT ![t] = [stack |-> Append(stack, fn),
                                                         pc |-> "selfDeadlock"]]
                   /\ UNCHANGED mRWLock
              ELSE /\ canLock(lockOf(fn))
                   /\ mRWLock' = lockedBy(t, lockOf(fn))
                   /\ threads' = [threads EXCEPT ![t] = [stack |-> Append(stack, fn),
                                                         pc |-> "running"]]
    /\ UNCHANGED <<registry, nameservers, tcpSocketMonitor, last, startup, committed>>

\* The function thread t is in returns; its scoped lock, if it declared one,
\* goes out of scope.
Return(t) ==
    /\ threads[t].pc = "running"
    /\ LET stack == threads[t].stack
           fn == stack[Len(stack)]
       IN  /\ threads' = [threads EXCEPT ![t] =
                            [stack |-> SubSeq(stack, 1, Len(stack) - 1),
                             pc |-> IF Len(stack) = 1 THEN "idle" ELSE "running"]]
           /\ mRWLock' = IF lockOf(fn) = "none" THEN mRWLock ELSE unlockedBy(t)
    /\ UNCHANGED <<registry, nameservers, tcpSocketMonitor, last, startup, committed>>

InitCalls ==
    /\ StartupDone
    /\ Constructed
    /\ nameservers = {}
    /\ mRWLock = Unlocked
    /\ threads = [t \in Threads |-> NotCalling]
    /\ committed = registry

NextCalls ==
    \/ \E t \in Threads, fn \in Functions : Call(t, fn)
    \/ \E t \in Threads : Return(t)

SpecCalls == InitCalls /\ [][NextCalls]_vars

(***************************************************************************)
(* main(): Controllers::init, then the listeners whose threads call the    *)
(* registry.  threads gives for each listener whether it was started.      *)
(***************************************************************************)
\* A main that registers the resolver callbacks ahead of Controllers::init.
mainStepAfter_resolverFirst(step) ==
    CASE step = "main" -> "initDnsResolver"
      [] step = "initDnsResolver" -> "initChildChains"
      [] step = "done" -> "NetlinkManager::start"
      [] step = "NetlinkManager::start" -> "makeNFLogListener"
      [] step = "makeNFLogListener" -> "FwmarkServer::startListener"
      [] step = "FwmarkServer::startListener" -> "NetdNativeService::start"
      [] step = "NetdNativeService::start" -> "MDnsService::start"
      [] OTHER -> "serving"

\* The statement of main that follows a step; "initChildChains" is the
\* first statement of gCtls->init() and "done" its return.
mainStepAfter(step) ==
    CASE step = "main" -> "initChildChains"
      [] step = "done" -> "NetlinkManager::start"
      [] step = "NetlinkManager::start" -> "makeNFLogListener"
      [] step = "makeNFLogListener" -> "initDnsResolver"
      [] step = "initDnsResolver" -> "FwmarkServer::startListener"
      [] step = "FwmarkServer::startListener" -> "NetdNativeService::start"
      [] step = "NetdNativeService::start" -> "MDnsService::start"
      [] OTHER -> "serving"

\* The statements of main that start something and exit(1) when it fails.
StartSteps == {"NetlinkManager::start", "makeNFLogListener", "initDnsResolver",
               "FwmarkServer::startListener", "NetdNativeService::start",
               "MDnsService::start"}

\* Those after which threads of request handlers call the registry.
Listeners == {"NetlinkManager::start", "initDnsResolver", "FwmarkServer::startListener",
              "NetdNativeService::start"}

\* The statements of main ahead of gCtls->init(), and its return.
mainProceeds ==
    /\ pc \in {"main", "done"}
    /\ pc' = mainStepAfter(pc)
    /\ UNCHANGED <<registry, nameservers, tcpSocketMonitor, last, iptables, installs,
                   initCalls, exitStatus, threading>>

\* A start statement of main with the result k of what it starts.
mainStarts(k) ==
    /\ pc \in StartSteps
    /\ IF k # OK
       THEN pc' = "exited" /\ exitStatus' = <<exitCodeOf("bandwidthCtrl.enableBandwidthControl")>>
            /\ UNCHANGED threads
       ELSE /\ pc' = mainStepAfter(pc)
            /\ threads' = IF pc \in Listeners THEN [threads EXCEPT ![pc] = "started"]
                          ELSE threads
            /\ UNCHANGED exitStatus
    /\ UNCHANGED <<registry, nameservers, tcpSocketMonitor, last, iptables, installs,
                   initCalls, mRWLock, committed>>

\* A request handled by a thread of a started listener.
handles(listener) ==
    /\ threads[listener] = "started"
    /\ pc # "exited"

ControllersInitReturned ==
    /\ pc \notin {"main", "exited"}
    /\ initCalls # <<>>
    /\ initCalls[Len(initCalls)].fn = "XfrmController::Init"
    /\ initCalls[Len(initCalls)].ret = OK

InitMain ==
    /\ Constructed
    /\ nameservers = {}
    /\ iptables = <<>>
    /\ installs = 0
    /\ pc = "main"
    /\ initCalls = <<>>
    /\ exitStatus = <<>>
    /\ mRWLock = Unlocked
    /\ threads = [l \in Listeners |-> "notStarted"]
    /\ committed = <<>>

NextMain ==
    \/ mainProceeds
    \/ \E k \in ExecResults : mainStarts(k)
    \/ \E k \in ExecResults : initChildChains(k)
    \/ \E k \in ExecResults : setupIptablesHooks(k)
    \/ \E k \in ExecResults : setupConnmarkIptablesHooks(k)
    \/ \E k \in ExecResults : enableBandwidthControl(k)
    \/ \E k \in ExecResults : RouteControllerInit(k)
    \/ \E k \in ExecResults : XfrmControllerInit(k)
    \/ \E address \in Addresses :
          /\ handles("NetlinkManager::start")
          /\ addInterfaceAddress(MaxIface, address) /\ UNCHANGED <<startup, threading>>
    \/ \E netId \in {NETID_UNSET, MIN_NET_ID} :
          /\ handles("initDnsResolver")
          /\ getNetworkContext(netId, FirstAppUid) /\ UNCHANGED <<startup, threading>>
    \/ \E netId \in {NETID_UNSET, MIN_NET_ID} :
          /\ handles("FwmarkServer::startListener")
          /\ checkUserNetworkAccess(FirstAppUid, netId) /\ UNCHANGED <<startup, threading>>
    \/ \E permission \in CreatePermissions :
          /\ handles("NetdNativeService::start")
          /\ createPhysicalNetwork(MIN_NET_ID, permission)
          /\ UidStateUnchanged /\ UNCHANGED <<startup, threading>>
    \/ /\ handles("NetdNativeService::start")
       /\ destroyNetwork(MIN_NET_ID, OK, OK)
       /\ UidStateUnchanged /\ UNCHANGED <<startup, threading>>

SpecMain == InitMain /\ [][NextMain]_vars

(***************************************************************************)
(* Contexts asked for while networks are destroyed.                        *)
(***************************************************************************)
NextResolve ==
    \/ \E netId \in NetIdArgs, uidRanges \in UidRangeArgs :
          addUsersToNetwork(netId, uidRanges, SUB_PRIORITY_HIGHEST, OK)
          /\ UNCHANGED <<startup, threading>>
    \/ \E netId \in NetIdArgs, kAdd \in KernelResults :
          setDefaultNetwork(netId, kAdd, OK) /\ UidStateUnchanged
          /\ UNCHANGED <<startup, threading>>
    \/ \E netId \in NetIdArgs, kDef \in KernelResults :
          destroyNetwork(netId, OK, kDef) /\ UidStateUnchanged
          /\ UNCHANGED <<startup, threading>>
    \/ \E netId \in ContextNetIdArgs, uid \in {AID_SYSTEM, FirstAppUid} :
          getNetworkContext(netId, uid) /\ UNCHANGED <<startup, threading>>

SpecResolve == InitDns /\ [][NextResolve]_vars

(***************************************************************************)
(* Grants across the destruction and the re-creation of a network.  The    *)
(* caller keeps, in seen, the calls it has made that wrote the grants or   *)
(* the networks, in order: <<op, uid, netId, ret>> or <<op, netId, ret>>.  *)
(***************************************************************************)
\* A destruction that drops the grants made for the network.
grantsAfterDestroy_purged(netId) == {g \in mProtectableUsers : g[2] # netId}

\* mProtectableUsers after destroyNetwork(netId): the method has no statement
\* that writes it.
grantsAfterDestroy(netId) == mProtectableUsers

mayRecord == Len(threads[Caller].seen) < MaxCalls

recorded(call) ==
    /\ threads' = [threads EXCEPT ![Caller].seen = Append(@, call)]
    /\ UNCHANGED <<startup, mRWLock, committed>>

RegrantUids == {FirstAppUid}

InitRegrant ==
    /\ StartupDone
    /\ Constructed
    /\ nameservers = {}
    /\ mRWLock = Unlocked
    /\ threads = [t \in {Caller} |-> Idle]
    /\ committed = <<>>

NextRegrant ==
    \/ \E uid \in RegrantUids, netId \in UserNetIds :
          /\ mayRecord
          /\ allowProtect(uid, netId)
          /\ recorded(<<"allowProtect", uid, netId, last'.ret>>)
    \/ \E uid \in RegrantUids, netId \in UserNetIds :
          /\ mayRecord
          /\ denyProtect(uid, netId)
          /\ recorded(<<"denyProtect", uid, netId, last'.ret>>)
    \/ \E netId \in UserNetIds :
          /\ mayRecord
          /\ createPhysicalNetwork(netId, PERMISSION_NONE)
          /\ UidStateUnchanged
          /\ recorded(<<"createPhysicalNetwork", netId, last'.ret>>)
    \/ \E netId \in UserNetIds :
          /\ mayRecord
          /\ destroyNetwork(netId, OK, OK)
          /\ mProtectableUsers' = grantsAfterDestroy(netId)
          /\ UNCHANGED <<mUsers, mAddressToIfindices, nameservers>>
          /\ recorded(<<"destroyNetwork", netId, last'.ret>>)
    \/ \E uid \in RegrantUids :
          setPermissionForUsers(PERMISSION_NETWORK, <<uid>>) /\ UNCHANGED <<startup, threading>>
    \/ \E address \in Addresses :
          addInterfaceAddress(Min(Ifaces), address) /\ UNCHANGED <<startup, threading>>
    \/ \E uid \in RegrantUids, netId \in UserNetIds :
          canProtect(uid, netId) /\ UNCHANGED <<startup, threading>>

SpecRegrant == InitRegrant /\ [][NextRegrant]_vars

(***************************************************************************)
(* The OEM allocator with callers on parallel threads.  A call stands at   *)
(* "lock" (waiting for mRWLock), "scan" (the loop over the OEM range),     *)
(* "check" and "insert" (createPhysicalNetworkLocked), "return" (the lock  *)
(* still held) and "returned"; seen lists the threads whose calls ran      *)
(* while this one did.                                                     *)
(***************************************************************************)
Allocators == {"createPhysicalOemNetwork", "createPhysicalNetwork"}

inCall(t) == threads[t].op # "idle" /\ threads[t].pc # "returned"

overlapped(t, u) == \E i \in DOMAIN threads[t].seen : threads[t].seen[i] = u

AllocFrame == UNCHANGED <<mDefaultNetId, mUsers, mProtectableUsers, mIfindexToLastNetId,
                          mAddressToIfindices, nameservers, startup, committed>>

\* The call is made: the caller has not taken the lock yet.
allocEnter(t, op, netId) ==
    /\ threads[t].op = "idle"
    /\ threads' = [u \in DOMAIN threads |->
                     IF u = t
                     THEN [Idle EXCEPT !.op = op, !.netId = netId, !.pc = "lock",
                                       !.seen = inOrder({v \in DOMAIN threads : inCall(v)})]
                     ELSE IF inCall(u) /\ ~overlapped(u, t)
                     THEN [threads[u] EXCEPT !.seen = Append(@, t)]
                     ELSE threads[u]]
    /\ UNCHANGED <<mNetworks, tcpSocketMonitor, last, mRWLock>>
    /\ AllocFrame

\* ScopedWLock lock(mRWLock).
allocLock(t) ==
    /\ threads[t].op \in Allocators
    /\ threads[t].pc = "lock"
    /\ canLock(lockKind(threads[t].op))
    /\ mRWLock' = lockedBy(t, lockKind(threads[t].op))
    /\ goto(t, IF threads[t].op = "createPhysicalOemNetwork" THEN "scan" ELSE "check")
    /\ UNCHANGED <<mNetworks, tcpSocketMonitor, last>>
    /\ AllocFrame

\* The loop over the OEM range and the test that follows it.
allocScan(t) ==
    /\ standsAt(t, "createPhysicalOemNetwork", "scan")
    /\ LET pNetId == scanOemIds(MIN_OEM_ID)
       IN  IF pNetId > MAX_OEM_ID
           THEN /\ threads' = [threads EXCEPT ![t].netId = 0, ![t].ret = ENONET,
                                              ![t].pc = "return"]
                /\ last' = [op |-> "createPhysicalOemNetwork", ret |-> ENONET, out |-> 0]
           ELSE /\ threads' = [threads EXCEPT ![t].netId = pNetId, ![t].pc = "check"]
                /\ UNCHANGED last
    /\ UNCHANGED <<mNetworks, tcpSocketMonitor, mRWLock>>
    /\ AllocFrame

\* The range test and the duplicate test of createPhysicalNetworkLocked.
allocCheck(t) ==
    /\ threads[t].op \in Allocators
    /\ threads[t].pc = "check"
    /\ LET ret == createPhysicalNetworkCheck(threads[t].netId)
       IN  IF ret # OK
           THEN /\ threads' = [threads EXCEPT ![t].ret = ret, ![t].pc = "return",
                                  ![t].netId = IF threads[t].op = "createPhysicalOemNetwork"
                                               THEN 0 ELSE @]
                /\ last' = [op |-> threads[t].op, ret |-> ret, out |-> 0]
           ELSE /\ goto(t, "insert")
                /\ UNCHANGED last
    /\ UNCHANGED <<mNetworks, tcpSocketMonitor, mRWLock>>
    /\ AllocFrame

\* mNetworks[netId] = physicalNetwork; updateTcpSocketMonitorPolling(); return 0.
allocInsert(t) ==
    /\ threads[t].op \in Allocators
    /\ threads[t].pc = "insert"
    /\ LET netId == threads[t].netId
           networks == [n \in DOMAIN mNetworks \cup {netId} |->
                           IF n = netId
                           THEN setPermission(NewNetwork("Physical", PERMISSION_NONE, FALSE),
                                              PERMISSION_NONE, OK)
                           ELSE mNetworks[n]]
       IN  /\ mNetworks' = networks
           /\ tcpSocketMonitor' = updateTcpSocketMonitorPolling(networks)
           /\ last' = [op |-> threads[t].op, ret |-> OK, out |-> netId]
    /\ threads' = [threads EXCEPT ![t].ret = OK, ![t].pc = "return"]
    /\ UNCHANGED mRWLock
    /\ AllocFrame

\* The method returns: lock goes out of scope.
allocUnlock(t) ==
    /\ threads[t].op \in Allocators
    /\ threads[t].pc = "return"
    /\ mRWLock' = unlockedBy(t)
    /\ goto(t, "returned")
    /\ UNCHANGED <<mNetworks, tcpSocketMonitor, last>>
    /\ AllocFrame

\* The caller is done with the result.
allocDone(t) ==
    /\ threads[t].op \in Allocators
    /\ threads[t].pc = "returned"
    /\ threads' = [threads EXCEPT ![t] = Idle]
    /\ UNCHANGED <<mNetworks, tcpSocketMonitor, last, mRWLock>>
    /\ AllocFrame

\* The OEM range with its FreeOemIds lowest ids free.
InitAlloc ==
    /\ StartupDone
    /\ mNetworks = [n \in FixedNetIds \cup ((MIN_OEM_ID + FreeOemIds) .. MAX_OEM_ID) |->
                      IF n = LOCAL_NET_ID THEN NewNetwork("Local", PERMISSION_NONE, FALSE)
                      ELSE IF n = DUMMY_NET_ID THEN NewNetwork("Dummy", PERMISSION_NONE, FALSE)
                      ELSE IF n = UNREACHABLE_NET_ID
                      THEN NewNetwork("Unreachable", PERMISSION_NONE, FALSE)
                      ELSE NewNetwork("Physical", PERMISSION_NONE, FALSE)]
    /\ mDefaultNetId = NETID_UNSET
    /\ mUsers = << >>
    /\ mProtectableUsers = {<<AID_VPN, NETID_UNSET>>}
    /\ mIfindexToLastNetId = << >>
    /\ mAddressToIfindices = << >>
    /\ nameservers = {}
    /\ tcpSocketMonitor = "none"
    /\ last = [op |-> "NetworkController", ret |-> OK]
    /\ mRWLock = Unlocked
    /\ threads = [t \in Threads |-> Idle]
    /\ committed = <<>>

NextAlloc ==
    \/ \E t \in Threads : allocEnter(t, "createPhysicalOemNetwork", 0)
    \/ \E t \in Threads, netId \in MIN_OEM_ID .. (MIN_OEM_ID + FreeOemIds) :
          allocEnter(t, "createPhysicalNetwork", netId)
    \/ \E t \in Threads : allocLock(t)
    \/ \E t \in Threads : allocScan(t)
    \/ \E t \in Threads : allocCheck(t)
    \/ \E t \in Threads : allocInsert(t)
    \/ \E t \in Threads : allocUnlock(t)
    \/ \E t \in Threads : allocDone(t)

SpecAlloc == InitAlloc /\ [][NextAlloc]_vars

(***************************************************************************)
(* Permissions of networks, set for a list of netIds.                      *)
(***************************************************************************)
InitPermission ==
    /\ StartupDone
    /\ NoThreads
    /\ \E topo \in [UserNetIds -> UserNetChoices] : mNetworks = NetworksOf(topo, {})
    /\ mUsers = << >>
    /\ mDefaultNetId = NETID_UNSET
    /\ mProtectableUsers = {<<AID_VPN, NETID_UNSET>>}
    /\ mIfindexToLastNetId = << >>
    /\ mAddressToIfindices = << >>
    /\ nameservers = {}
    /\ tcpSocketMonitor = monitorAfterCreates(mNetworks)
    /\ last = [op |-> "NetworkController", ret |-> OK]

\* The lists handed over: the local network and the netIds of the general
\* range, registered or not.
PermissionLists ==
    UNION {[1 .. len -> {LOCAL_NET_ID} \cup UserNetIds] : len \in 0 .. MaxListLen}

NextPermission ==
    \/ \E netId \in UserNetIds, iface \in Ifaces :
          addInterfaceToNetwork(netId, iface, OK) /\ UidStateUnchanged
          /\ UNCHANGED <<startup, threading>>
    \/ \E permission \in Permissions, netIds \in PermissionLists :
          \E failAt \in 0 .. Len(netIds) :
             setPermissionForNetworks(permission, netIds, failAt, "-EIO") /\ UidStateUnchanged
             /\ UNCHANGED <<startup, threading>>

SpecPermission == InitPermission /\ [][NextPermission]_vars





(***************************************************************************)
(* Properties of the registry operations.                                  *)
(***************************************************************************)
holdersOf(iface) == {n \in DOMAIN mNetworks : iface \in mNetworks[n].interfaces}

C1_AtMostOneHolder == \A iface \in Ifaces : Cardinality(holdersOf(iface)) <= 1

C1_BusyChangesNothing ==
    last'.op = "addInterfaceToNetwork" =>
       \A netId \in DOMAIN mNetworks, iface \in Ifaces, k \in KernelResults :
          (/\ holdersOf(iface) \ {netId} # {}
           /\ addInterfaceToNetwork(netId, iface, k))
          => (last'.ret = EBUSY /\ UNCHANGED registry)

\* C1: every interface is held by at most one network of the registry, and
\* addInterfaceToNetwork(n, iface) on a network n of the registry returns
\* -EBUSY and changes nothing when iface is held by a network other than n.
C1_InterfaceExclusive == [] C1_AtMostOneHolder /\ [][C1_BusyChangesNothing]_vars

C1_Witness ==
    /\ last = [op |-> "addInterfaceToNetwork", ret |-> EBUSY]
    /\ \E iface \in Ifaces : Cardinality(holdersOf(iface)) = 1

\* C2: mDefaultNetId is NETID_UNSET or the netId of a Physical network that
\* is in the registry.
C2_DefaultIsPhysical ==
    \/ mDefaultNetId = NETID_UNSET
    \/ mDefaultNetId \in DOMAIN mNetworks /\ isPhysical(mNetworks[mDefaultNetId])

C2_Witness ==
    /\ last.op = "destroyNetwork"
    /\ mDefaultNetId # NETID_UNSET
    /\ \E n \in UserNetIds : n \notin DOMAIN mNetworks

defaultHolders == {n \in DOMAIN mNetworks : isPhysical(mNetworks[n]) /\ mNetworks[n].isDefault}

\* C3: at most one Physical network holds default status, and one that does
\* is the network mDefaultNetId names.
C3_SingleDefault ==
    /\ Cardinality(defaultHolders) <= 1
    /\ defaultHolders \subseteq {mDefaultNetId}

\* C4: LOCAL, DUMMY and UNREACHABLE are in the registry in every state.
C4_FixedNetworksStay == FixedNetIds \subseteq DOMAIN mNetworks

NoTraceOf(n) ==
    /\ \A uid \in UidArgs :
          checkUserNetworkAccessLocked(uid, n) = ENONET /\ ~isUidAllowed(n, uid)
    /\ \A iface \in Ifaces :
          addInterfaceToNetworkCheck(n, iface) = ENONET /\ modifyRouteCheck(n, iface) = ENONET
    /\ removeInterfaceFromNetworkCheck(n) = ENONET
    /\ mDefaultNetId # n /\ setDefaultNetworkCheck(n) = ENONET
    /\ \A permission \in Permissions, failAt \in 0 .. 1, kerr \in KernelErrs :
          setPermissionForNetworksRet(permission, <<n>>, failAt, kerr) = ENONET
    /\ isWrongNetworkForUidRanges(n) = ENONET
    /\ \A netIds \in NetIdLists :
          (\E i \in 1 .. Len(netIds) : netIds[i] = n) => setNetworkAllowlistCheck(netIds) = ENONET
    /\ destroyNetworkCheck(n) = ENONET
    /\ \A i \in DOMAIN mIfindexToLastNetId : mIfindexToLastNetId[i] # n

\* C5: a netId that is not in the registry (destroyed and not created again,
\* or never created) leaves no trace: the access check and every operation
\* with that netId as its target return -ENONET, isUidAllowed is false and no
\* mIfindexToLastNetId entry has that value.
C5_NoTraceAfterDestroy ==
    \A n \in NetIdArgs \ ({NETID_UNSET} \cup DOMAIN mNetworks) : NoTraceOf(n)

C5_Witness ==
    /\ last = [op |-> "destroyNetwork", ret |-> OK]
    /\ \E n \in UserNetIds : n \notin DOMAIN mNetworks
    /\ \E n \in UserNetIds : n \in DOMAIN mNetworks /\ mNetworks[n].interfaces # {}

\* The errors destroyNetwork(netId) meets, in the order it meets them.
errorsOfDestroy(netId, kClear, kDef) ==
    LET clearErr == IF mNetworks[netId].interfaces = {} THEN OK ELSE kClear
        nextErr == IF mDefaultNetId = netId THEN (IF clearErr = OK THEN OK ELSE kDef)
                   ELSE IF mNetworks[netId].type = "Virtual" /\ mDefaultNetId # NETID_UNSET /\
                           mNetworks[mDefaultNetId].interfaces # {}
                   THEN kDef
                   ELSE OK
    IN  SelectSeq(<<clearErr, nextErr>>, LAMBDA e : e # OK)

C6_CleanupCompletes ==
    last'.op = "destroyNetwork" =>
       \A netId \in DOMAIN mNetworks \ {LOCAL_NET_ID, UNREACHABLE_NET_ID},
          kClear \in KernelResults, kDef \in KernelResults :
        destroyNetwork(netId, kClear, kDef)
        => /\ netId \notin DOMAIN mNetworks'
           /\ \A n \in DOMAIN mNetworks' : mNetworks'[n] = mNetworks[n]
           /\ mDefaultNetId' = (IF mDefaultNetId = netId THEN NETID_UNSET ELSE mDefaultNetId)
           /\ \A i \in DOMAIN mIfindexToLastNetId' : mIfindexToLastNetId'[i] # netId
           /\ last'.ret = (IF errorsOfDestroy(netId, kClear, kDef) = << >> THEN OK
                           ELSE Head(errorsOfDestroy(netId, kClear, kDef)))

\* C6: destroyNetwork(n) on an existing n other than LOCAL and UNREACHABLE
\* erases n, resets mDefaultNetId if it was n, purges the mIfindexToLastNetId
\* entries of n and returns the first error met (0 if none), whichever of its
\* kernel steps fail.
C6_DestroyAlwaysCompletes == [][C6_CleanupCompletes]_vars

C6_Witness ==
    /\ last.op = "destroyNetwork" /\ last.ret \in KernelErrs
    /\ mDefaultNetId = NETID_UNSET
    /\ \E n \in UserNetIds : n \notin DOMAIN mNetworks

(***************************************************************************)
(* Properties of the access policy, under SpecAccess.                      *)
(***************************************************************************)
hasSystemBit(uid) ==
    BitAnd(getPermissionForUserLocked(uid), PERMISSION_SYSTEM) = PERMISSION_SYSTEM

\* Some secure Virtual network applies to uid.
secureVpnApplies(uid) ==
    \E v \in DOMAIN mNetworks :
       isVirtual(mNetworks[v]) /\ mNetworks[v].secure /\ appliesToUser(mNetworks[v], uid)

\* Some Virtual network applies to uid.
vpnApplies(uid) ==
    \E v \in DOMAIN mNetworks : isVirtual(mNetworks[v]) /\ appliesToUser(mNetworks[v], uid)

protectable(uid, netId) ==
    <<uid, NETID_UNSET>> \in mProtectableUsers \/ <<uid, netId>> \in mProtectableUsers

\* The outcome of the first matching rule of the nine, in their order.
firstMatchingRule(uid, netId) ==
    IF netId \notin DOMAIN mNetworks THEN ENONET
    ELSE IF uid = INVALID_UID THEN EREMOTEIO
    ELSE IF hasSystemBit(uid) THEN OK
    ELSE IF mNetworks[netId].type = "Virtual"
    THEN (IF appliesToUser(mNetworks[netId], uid) THEN OK ELSE EPERM)
    ELSE IF secureVpnApplies(uid) /\ ~protectable(uid, netId) THEN EPERM
    ELSE IF mNetworks[netId].type = "Physical" /\ appliesToUser(mNetworks[netId], uid) THEN OK
    ELSE IF mNetworks[netId].type = "Unreachable"
    THEN (IF appliesToUser(mNetworks[netId], uid) THEN OK ELSE EPERM)
    ELSE IF ~networkIsUidAllowed(mNetworks[netId], uid) THEN EACCES
    ELSE IF BitAnd(getPermissionForUserLocked(uid), mNetworks[netId].permission)
               = mNetworks[netId].permission
    THEN OK
    ELSE EACCES

\* C7: for every uid, netId and registry configuration, checkUserNetworkAccess
\* returns the outcome of the first matching rule of (1) absent network,
\* (2) INVALID_UID, (3) SYSTEM bit, (4) Virtual target, (5) a secure Virtual
\* network applies and uid is not protectable on netId, (6) Physical target
\* that applies, (7) Unreachable target, (8) allowlist, (9) permission bits.
C7_FirstMatchingRule ==
    \A uid \in UidArgs, netId \in NetIdArgs :
       checkUserNetworkAccessLocked(uid, netId) = firstMatchingRule(uid, netId)

\* A Physical network of permission NONE with no allowlist.
openPhysical(n) ==
    /\ n \in DOMAIN mNetworks
    /\ isPhysical(mNetworks[n])
    /\ mNetworks[n].permission = PERMISSION_NONE
    /\ mNetworks[n].allowedUids = {}

\* C8: a uid without SYSTEM permission to which a secure Virtual network
\* applies gets PERMISSION_DENIED on every non-Virtual network n of the
\* registry while neither (uid, UNSET) nor (uid, n) is protectable; a uid to
\* which no Virtual network applies gets 0 on a Physical network of
\* permission NONE with no allowlist; and so does the confined uid once
\* allowProtect(uid, UNSET) has been granted.
C8_SecureVpnConfines ==
    \A uid \in UidArgs \ {INVALID_UID} :
       /\ \A n \in DOMAIN mNetworks :
             (/\ ~hasSystemBit(uid)
              /\ secureVpnApplies(uid)
              /\ ~isVirtual(mNetworks[n])
              /\ ~protectable(uid, n))
             => checkUserNetworkAccessLocked(uid, n) = EPERM
       /\ \A n \in DOMAIN mNetworks :
             (~vpnApplies(uid) /\ openPhysical(n))
             => checkUserNetworkAccessLocked(uid, n) = OK
       /\ \A n \in DOMAIN mNetworks :
             (secureVpnApplies(uid) /\ <<uid, NETID_UNSET>> \in mProtectableUsers /\
              openPhysical(n))
             => checkUserNetworkAccessLocked(uid, n) = OK

\* The configurations of invariant 4: at most one Virtual network applies to a uid.
oneVpnPerUid ==
    \A uid \in UidArgs :
       Cardinality({v \in DOMAIN mNetworks :
                       isVirtual(mNetworks[v]) /\ appliesToUser(mNetworks[v], uid)}) <= 1

(***************************************************************************)
(* Properties of network selection, under SpecSelect and SpecDns.          *)
(***************************************************************************)
\* The smallest subPriority among the ranges of network n that hold uid.
bestSubPriority(n, uid) ==
    Min({r[1] : r \in {q \in mNetworks[n].uidRanges : q[2] <= uid /\ uid <= q[3]}})

\* The Physical and Unreachable networks that apply to uid with a subPriority
\* below SUB_PRIORITY_NO_DEFAULT.
perAppDefaults(uid) ==
    {n \in DOMAIN mNetworks :
        /\ mNetworks[n].type \in {"Physical", "Unreachable"}
        /\ \E q \in mNetworks[n].uidRanges : q[2] <= uid /\ uid <= q[3]
        /\ bestSubPriority(n, uid) < SUB_PRIORITY_NO_DEFAULT}

dnsDefault(uid) ==
    IF perAppDefaults(uid) # {} THEN getPhysicalOrUnreachableNetworkForUserLocked(uid)
    ELSE mDefaultNetId

\* The Virtual networks with nameservers that apply to uid.
vpnsWithNameservers(uid) ==
    {v \in DOMAIN mNetworks :
        isVirtual(mNetworks[v]) /\ appliesToUser(mNetworks[v], uid) /\ v \in nameservers}

\* C10: with D the per-app default of uid, else defaultNetId, the DNS
\* resolution yields (a) D, explicitly selected, when the request is UNSET
\* and no Virtual network applies; (b) otherwise, when access is granted, the
\* requested network, explicitly selected, a Virtual network without
\* nameservers being rewritten to D; (c) otherwise the Virtual network with
\* nameservers that applies to uid, explicitly selected, else D not
\* explicitly selected; always protectedFromVpn with permission SYSTEM.
C10_DnsResolution ==
    last.op = "getNetworkForDns" =>
       LET uid == last.uid
           requested == last.netId
           mark == last.mark
           D == dnsDefault(uid)
       IN  /\ mark.protectedFromVpn
           /\ mark.permission = PERMISSION_SYSTEM
           /\ IF requested = NETID_UNSET /\ ~vpnApplies(uid)
              THEN mark.netId = D /\ mark.explicitlySelected
              ELSE IF checkUserNetworkAccessLocked(uid, requested) = OK
              THEN /\ mark.explicitlySelected
                   /\ mark.netId = IF isVirtual(mNetworks[requested]) /\
                                      requested \notin nameservers
                                   THEN D ELSE requested
              ELSE IF vpnsWithNameservers(uid) # {}
              THEN mark.netId \in vpnsWithNameservers(uid) /\ mark.explicitlySelected
              ELSE mark.netId = D /\ ~mark.explicitlySelected

(***************************************************************************)
(* Properties of the network context, under SpecContext.                   *)
(***************************************************************************)
\* The permission of uid: its entry, else SYSTEM below the application uids.
permissionOf(uid) ==
    IF uid \in DOMAIN mUsers THEN mUsers[uid]
    ELSE IF uid < FIRST_APPLICATION_UID THEN PERMISSION_SYSTEM ELSE PERMISSION_NONE

\* C11: getNetworkContext(netId, uid) fills explicitlySelected = (netId is
\* not UNSET); app_netid = netId when not UNSET, else the connect network of
\* uid; protectedFromVpn = explicitlySelected and canProtect(uid, app_netid);
\* the mark's permission = the uid's permission; the mark's netId =
\* app_netid.  With a Physical default network, no Virtual network, no
\* per-app default and netId UNSET, app_netid and dns_netid are the default
\* netId and the app mark is neither explicitly selected nor protected.
C11_ContextAppSide ==
    last.op = "getNetworkContext" =>
       LET uid == last.uid
           nc == last.nc
           mark == FwmarkFields(nc.app_mark)
           explicit == last.netId # NETID_UNSET
       IN  /\ mark.explicitlySelected = explicit
           /\ nc.app_netid = IF explicit THEN last.netId ELSE getNetworkForConnectLocked(uid)
           /\ mark.protectedFromVpn =
                 (explicit /\ (permissionOf(uid) \div 2 = 1 \/ protectable(uid, nc.app_netid)))
           /\ mark.permission = permissionOf(uid)
           /\ mark.netId = nc.app_netid
           /\ (/\ mDefaultNetId # NETID_UNSET
               /\ \A n \in DOMAIN mNetworks : mNetworks[n].type # "Virtual"
               /\ perAppDefaults(uid) = {}
               /\ ~explicit)
              => /\ nc.app_netid = mDefaultNetId
                 /\ nc.dns_netid = mDefaultNetId
                 /\ ~mark.explicitlySelected
                 /\ ~mark.protectedFromVpn

\* An explicit request of a protectable uid without SYSTEM permission, marked
\* protected.
C11_Witness ==
    /\ last.op = "getNetworkContext"
    /\ last.netId = DUMMY_NET_ID
    /\ permissionOf(last.uid) # PERMISSION_SYSTEM
    /\ FwmarkFields(last.nc.app_mark).protectedFromVpn
    /\ mDefaultNetId # NETID_UNSET

(***************************************************************************)
(* Properties of protection, under SpecProtect.                            *)
(***************************************************************************)
\* C12: canProtect(uid, n) is true exactly when uid has the SYSTEM
\* permission bit (set, or by default below FIRST_APPLICATION_UID with no
\* entry), or (uid, UNSET) is in protectable, or (uid, n) is.
C12_CanProtectExactly ==
    last.op = "canProtect" =>
       last.ret = (\/ permissionOf(last.uid) \div 2 = 1
                   \/ <<last.uid, NETID_UNSET>> \in mProtectableUsers
                   \/ <<last.uid, last.netId>> \in mProtectableUsers)

\* A system uid whose entry took the SYSTEM bit away, refused for one
\* network while granted for another.
C12_Witness ==
    /\ last.op = "canProtect"
    /\ last.uid = AID_SYSTEM
    /\ ~last.ret
    /\ \E n \in GrantNetArgs : <<AID_SYSTEM, n>> \in mProtectableUsers

C13_GrantStep ==
    \A uid \in GrantUidArgs, n \in GrantNetArgs :
       /\ (last'.op = "allowProtect" /\ allowProtect(uid, n)) =>
             IF <<uid, n>> \in mProtectableUsers
             THEN last'.ret = EEXIST /\ mProtectableUsers' = mProtectableUsers
             ELSE last'.ret = OK /\ mProtectableUsers' = mProtectableUsers \cup {<<uid, n>>}
       /\ (last'.op = "denyProtect" /\ denyProtect(uid, n)) =>
             /\ IF <<uid, n>> \in mProtectableUsers
                THEN last'.ret = OK /\ mProtectableUsers' = mProtectableUsers \ {<<uid, n>>}
                ELSE last'.ret = ENOENT /\ mProtectableUsers' = mProtectableUsers
             /\ (n # NETID_UNSET /\ <<uid, NETID_UNSET>> \in mProtectableUsers)
                => <<uid, NETID_UNSET>> \in mProtectableUsers'

\* C13: allowProtect(uid, n) adds exactly (uid, n) and returns -EEXIST with
\* nothing changed when it is present; denyProtect(uid, n) removes exactly
\* (uid, n) and returns -ENOENT with nothing changed when it is absent;
\* denyProtect with n other than UNSET keeps a wildcard grant; (AID_VPN,
\* UNSET) is present from construction.
C13_GrantsAreExact ==
    /\ <<AID_VPN, NETID_UNSET>> \in mProtectableUsers
    /\ [][C13_GrantStep]_vars

\* A network grant revoked while the wildcard grant of the same uid stays.
C13_Witness ==
    /\ last = [op |-> "denyProtect", ret |-> OK]
    /\ \E uid \in GrantUidArgs :
          /\ <<uid, NETID_UNSET>> \in mProtectableUsers
          /\ \A n \in GrantNetArgs \ {NETID_UNSET} : <<uid, n>> \notin mProtectableUsers

(***************************************************************************)
(* Properties of the allowlists, under SpecAllow.                          *)
(***************************************************************************)
\* The netIds a list of configs names.
namedIn(rangeConfigs) == {rangeConfigs[i].netId : i \in DOMAIN rangeConfigs}

\* The ranges the list gives n: those of the last config naming n.
listedFor(rangeConfigs, n) ==
    LET at == {i \in DOMAIN rangeConfigs : rangeConfigs[i].netId = n}
    IN  rangeConfigs[CHOOSE i \in at : \A j \in at : j <= i].uidRanges

C14_AllowlistStep ==
    last'.op = "setNetworkAllowlist" =>
       \A rangeConfigs \in RangeConfigLists :
          setNetworkAllowlist(rangeConfigs) =>
             IF \E n \in namedIn(rangeConfigs) : n \notin DOMAIN mNetworks
             THEN last'.ret = ENONET /\ mNetworks' = mNetworks
             ELSE /\ last'.ret = OK
                  /\ DOMAIN mNetworks' = DOMAIN mNetworks
                  /\ \A n \in DOMAIN mNetworks :
                        IF n \in namedIn(rangeConfigs)
                        THEN mNetworks'[n].allowedUids = listedFor(rangeConfigs, n)
                        ELSE /\ mNetworks'[n].allowedUids = {}
                             /\ \A uid \in UidArgs : networkIsUidAllowed(mNetworks'[n], uid)

\* C14: setNetworkAllowlist(L) returns -ENONET and changes no allowlist when
\* an entry of L names a netId that is not in the registry; otherwise every
\* network L does not mention ends with an empty allowlist, admitting every
\* uid, and every network L mentions ends with exactly the ranges L lists
\* for it, whatever the allowlists were before.
C14_AllowlistReplaced == [][C14_AllowlistStep]_vars

\* A replacement that cleared the allowlist of a network it does not name.
C14_Witness ==
    /\ last = [op |-> "setNetworkAllowlist", ret |-> OK]
    /\ mNetworks[DUMMY_NET_ID].allowedUids = {}
    /\ \E n \in UserNetIds : n \in DOMAIN mNetworks /\ mNetworks[n].allowedUids # {}

\* C15: isUidAllowed(n, uid) is true if n = UNSET and there is no default
\* network; in every other case it is true exactly when n is in the registry
\* and the allowlist of n admits uid.
C15_UidAllowedExactly ==
    last.op = "isUidAllowed" =>
       last.ret = IF last.netId = NETID_UNSET /\ mDefaultNetId = NETID_UNSET THEN TRUE
                  ELSE /\ last.netId \in DOMAIN mNetworks
                       /\ \/ mNetworks[last.netId].allowedUids = {}
                          \/ \E r \in mNetworks[last.netId].allowedUids :
                                r[1] <= last.uid /\ last.uid <= r[2]

\* The exemption of a request naming no network, lost once a default exists.
C15_Witness ==
    /\ last.op = "isUidAllowed"
    /\ last.netId = NETID_UNSET
    /\ mDefaultNetId # NETID_UNSET
    /\ ~last.ret

(***************************************************************************)
(* Properties of the address bookkeeping, under SpecAddress.               *)
(***************************************************************************)
\* Removing address from ifindex hands over within a VPN: the address was
\* on ifindex, another ifindex still carries it, ifindex is tracked, and a
\* remaining ifindex is tracked under the same netId, a Virtual network of
\* the registry.
handsOver(ifindex, address) ==
    /\ address \in DOMAIN mAddressToIfindices
    /\ ifindex \in mAddressToIfindices[address]
    /\ mAddressToIfindices[address] \ {ifindex} # {}
    /\ ifindex \in DOMAIN mIfindexToLastNetId
    /\ \E idx \in mAddressToIfindices[address] \ {ifindex} :
          /\ idx \in DOMAIN mIfindexToLastNetId
          /\ mIfindexToLastNetId[idx] = mIfindexToLastNetId[ifindex]
          /\ mIfindexToLastNetId[idx] \in DOMAIN mNetworks
          /\ mNetworks[mIfindexToLastNetId[idx]].type = "Virtual"

C16_RemoveAddressStep ==
    last'.op = "removeInterfaceAddress" =>
       (last'.ret = ~handsOver(last'.ifindex, last'.address))

\* C16: removeInterfaceAddress(ifindex, addr) returns false exactly when
\* addr was recorded on ifindex, another ifindex still carries addr, ifindex
\* has an ifindexToLastNetId entry, and a remaining ifindex maps to the same
\* netId, a Virtual network of the registry; in every other case it returns
\* true.
C16_RemoveAddressResult == [][C16_RemoveAddressStep]_vars

\* The address removed from one of two interfaces of a VPN: no socket
\* destruction asked for.
C16_Witness ==
    /\ last.op = "removeInterfaceAddress"
    /\ ~last.ret
    /\ \E n \in UserNetIds :
          /\ n \in DOMAIN mNetworks
          /\ isVirtual(mNetworks[n])
          /\ Cardinality(mNetworks[n].interfaces) = 2

(***************************************************************************)
(* Properties of the OEM allocation, under SpecOem.                        *)
(***************************************************************************)
freeOemIds == {n \in MIN_OEM_ID .. MAX_OEM_ID : n \notin DOMAIN mNetworks}

C17_OemStep ==
    (last'.op = "createPhysicalOemNetwork" /\ last'.ret # EINVAL) =>
       IF freeOemIds # {}
       THEN /\ last'.ret = OK
            /\ last'.out \in freeOemIds
            /\ \A m \in freeOemIds : last'.out <= m
            /\ DOMAIN mNetworks' = DOMAIN mNetworks \cup {last'.out}
            /\ mNetworks'[last'.out].type = "Physical"
            /\ \A n \in DOMAIN mNetworks : mNetworks'[n] = mNetworks[n]
       ELSE /\ last'.ret = ENONET
            /\ last'.out = 0
            /\ mNetworks' = mNetworks

\* C17: createPhysicalOemNetwork creates a Physical network at the smallest
\* netId of [MIN_OEM_ID, MAX_OEM_ID] that is not in the registry and returns
\* that id in out; with every id of the range taken it returns the
\* exhaustion error, sets out to 0 and leaves the registry unchanged.
C17_OemAllocation == [][C17_OemStep]_vars

\* The allocator refused on a full range.
C17_Witness ==
    /\ last.op = "createPhysicalOemNetwork"
    /\ last.ret = ENONET
    /\ last.out = 0
    /\ freeOemIds = {}

(***************************************************************************)
(* Properties of creation, under SpecCreate.                               *)
(***************************************************************************)
inGeneralRange(n) == MIN_NET_ID <= n /\ n <= MAX_NET_ID
inOemRange(n) == MIN_OEM_ID <= n /\ n <= MAX_OEM_ID

\* An error leaves the registry as it was; a success adds one key and leaves
\* the networks that were there as they were.
registryKept(netId) ==
    /\ last'.ret # OK => mNetworks' = mNetworks
    /\ last'.ret = OK =>
          /\ netId \notin DOMAIN mNetworks
          /\ DOMAIN mNetworks' = DOMAIN mNetworks \cup {netId}
          /\ \A n \in DOMAIN mNetworks : mNetworks'[n] = mNetworks[n]

C18_CreateStep ==
    /\ last'.op = "createPhysicalNetwork" =>
          \A netId \in EdgeNetArgs :
             createPhysicalNetwork(netId, PERMISSION_NONE) =>
                /\ (~inGeneralRange(netId) /\ ~inOemRange(netId)) => last'.ret = EINVAL
                /\ ((inGeneralRange(netId) \/ inOemRange(netId)) /\
                    netId \in DOMAIN mNetworks) => last'.ret = EEXIST
                /\ registryKept(netId)
    /\ last'.op = "createVirtualNetwork" =>
          \A netId \in EdgeNetArgs, secure \in BOOLEAN, vpnType \in EdgeVpnTypeArgs :
             createVirtualNetwork(netId, secure, vpnType, OK) =>
                /\ ~inGeneralRange(netId) => last'.ret = EINVAL
                /\ (inGeneralRange(netId) /\ netId \in DOMAIN mNetworks) => last'.ret = EEXIST
                /\ (/\ inGeneralRange(netId)
                    /\ netId \notin DOMAIN mNetworks
                    /\ (vpnType < VPN_SERVICE \/ vpnType > VPN_OEM_LEGACY))
                   => last'.ret = EINVAL
                /\ registryKept(netId)

\* C18: createPhysicalNetwork(n) returns -EINVAL when n is outside the
\* general and the OEM range, createVirtualNetwork(n) returns -EINVAL when n
\* is outside the general range or vpnType is outside SERVICE..OEM_LEGACY,
\* both return -EEXIST when n is already in the registry, and in every error
\* case the registry is unchanged: no existing network is replaced.
C18_CreateErrors == [][C18_CreateStep]_vars

\* A create refused for a netId that a network of the other variant holds.
C18_Witness ==
    /\ last = [op |-> "createPhysicalNetwork", ret |-> EEXIST]
    /\ \E n \in EdgeNetArgs : n \in DOMAIN mNetworks /\ isVirtual(mNetworks[n])
    /\ \E n \in EdgeNetArgs : n \in DOMAIN mNetworks /\ isPhysical(mNetworks[n]) /\ inOemRange(n)

(***************************************************************************)
(* Properties of the default network and of the monitor, under Spec.       *)
(***************************************************************************)
C19_AnyCallStep ==
    last'.op = "setDefaultNetwork" =>
       \A netId \in NetIdArgs, kAdd \in KernelResults, kRemove \in KernelResults :
          setDefaultNetwork(netId, kAdd, kRemove) => getDefaultNetwork' = netId

\* C19: for every n, getDefaultNetwork() right after a setDefaultNetwork(n)
\* call returns n.
C19_SetThenGet == [][C19_AnyCallStep]_vars

C19_SuccessfulCallStep ==
    last'.op = "setDefaultNetwork" =>
       \A netId \in NetIdArgs, kAdd \in KernelResults, kRemove \in KernelResults :
          (setDefaultNetwork(netId, kAdd, kRemove) /\ last'.ret = OK)
             => getDefaultNetwork' = netId

\* C19 as amended: getDefaultNetwork() right after a setDefaultNetwork(n)
\* call that returned 0 returns n.
C19_SetThenGetOnSuccess == [][C19_SuccessfulCallStep]_vars

\* The default moved to a second Physical network while the first is kept.
C19_Witness ==
    /\ last = [op |-> "setDefaultNetwork", ret |-> OK]
    /\ getDefaultNetwork = MIN_NET_ID + 1
    /\ MIN_NET_ID \in DOMAIN mNetworks
    /\ isPhysical(mNetworks[MIN_NET_ID])

\* C20: after every successful creation and every successful destroyNetwork
\* the monitor has been signalled, and the last signal is resumePolling if a
\* Physical network with netId >= MIN_NET_ID is in the registry and
\* suspendPolling otherwise.
C20_MonitorFollowsRegistry ==
    (/\ last.op \in {"createPhysicalNetwork", "createVirtualNetwork", "destroyNetwork"}
     /\ last.ret = OK)
    => tcpSocketMonitor =
          IF \E n \in DOMAIN mNetworks : mNetworks[n].type = "Physical" /\ n >= MIN_NET_ID
          THEN "resumePolling" ELSE "suspendPolling"

(***************************************************************************)
(* Properties of the packet-filter chains, under SpecChains.               *)
(***************************************************************************)
\* How often the batch holds the line.
timesIn(command, line) == Cardinality({k \in DOMAIN command : command[k] = line})

C21_CooperativeStep ==
    (last'.op = "createChildChains" /\ ~last'.exclusive) =>
       LET parentChain == iptables.parentChain
           before == iptables.chains[parentChain]
           after == iptables'.chains[parentChain]
           command == last'.command
       IN  /\ \A k \in DOMAIN command :
                 /\ command[k][1] \notin {"-D", "-F", "-X"}
                 /\ ~(command[k][1] = ":" /\ command[k][2] = parentChain)
           /\ Len(after) >= Len(before)
           /\ SubSeq(after, 1, Len(before)) = before
           /\ \A c \in Range(last'.childChains) :
                 /\ timesIn(command, <<":", c, "-">>) = 1
                 /\ timesIn(command, CHILD_CHAIN_TEMPLATE(parentChain, c)) =
                       IF CHILD_CHAIN_TEMPLATE(parentChain, c) \in Range(before) THEN 0 ELSE 1

\* C21: in Cooperative mode createChildChains emits no command that deletes
\* or flushes a rule of the parent chain, the rules of the parent keep their
\* content and position, a child linked by a rule of exactly the form
\* "-A <parent> -j <child>" is not linked again, every listed child is
\* re-created and every listed child not yet linked gets exactly one link.
C21_CooperativeKeepsParent == [][C21_CooperativeStep]_vars

C22_SecondInstallStep ==
    (/\ last.op = "createChildChains" /\ last.exec = OK
     /\ last'.op = "createChildChains" /\ last'.exec = OK) =>
       /\ iptables'.chains[iptables.parentChain] = iptables.chains[iptables.parentChain]
       /\ DOMAIN iptables'.chains = DOMAIN iptables.chains

\* C22: installing twice in succession, both batches applied, leaves the
\* same rules in the parent chain and the same set of child chains as
\* installing once.
C22_InstallIdempotent == [][C22_SecondInstallStep]_vars

\* The place of a chain in the child list; 0 when it is not listed.
placeIn(childChains, c) ==
    IF c \in Range(childChains) THEN CHOOSE i \in DOMAIN childChains : childChains[i] = c
    ELSE 0

\* C23: after createChildChains the links to the listed children stand in
\* the parent chain in the order of the parent's child list.
C23_LinksInListOrder ==
    (last.op = "createChildChains" /\ last.listing = OK /\ last.exec = OK) =>
       LET rules == iptables.chains[iptables.parentChain] IN
       \A p \in DOMAIN rules, q \in DOMAIN rules :
          (/\ p < q
           /\ CHILD_CHAIN_REGEX(rules[p]) /\ placeIn(last.childChains, rules[p][4]) # 0
           /\ CHILD_CHAIN_REGEX(rules[q]) /\ placeIn(last.childChains, rules[q][4]) # 0)
          => placeIn(last.childChains, rules[p][4]) <= placeIn(last.childChains, rules[q][4])

\* The rules are links to listed children, each later in the list than the
\* one before.
strictlyInListOrder(rules, childChains) ==
    /\ \A p \in DOMAIN rules :
          CHILD_CHAIN_REGEX(rules[p]) /\ placeIn(childChains, rules[p][4]) # 0
    /\ \A p \in DOMAIN rules, q \in DOMAIN rules :
          p < q => placeIn(childChains, rules[p][4]) < placeIn(childChains, rules[q][4])

C23_AddedLinksStep ==
    last'.op = "createChildChains" =>
       LET before == iptables.chains[iptables.parentChain]
           after == iptables'.chains[iptables.parentChain]
       IN  \E kept \in {<<>>, before} :
              /\ Len(after) >= Len(kept)
              /\ SubSeq(after, 1, Len(kept)) = kept
              /\ strictlyInListOrder(SubSeq(after, Len(kept) + 1, Len(after)),
                                     last'.childChains)

\* C23 as amended: the links a createChildChains call adds to the parent
\* stand after every rule the parent keeps, in the order of the parent's
\* child list.
C23_AddedLinksInListOrder == [][C23_AddedLinksStep]_vars

\* A Cooperative install that found the second child linked and added the
\* first one behind it.
C23_Witness ==
    /\ last.op = "createChildChains" /\ ~last.exclusive
    /\ last.listing = OK /\ last.exec = OK
    /\ Len(last.childChains) >= 2
    /\ LET rules == iptables.chains[iptables.parentChain] IN
       /\ Len(rules) = Len(last.childChains)
       /\ rules[1] = CHILD_CHAIN_TEMPLATE(iptables.parentChain, last.childChains[2])
       /\ rules[2] = CHILD_CHAIN_TEMPLATE(iptables.parentChain, last.childChains[1])

(***************************************************************************)
(* Properties of the init sequence, under SpecSequence.                    *)
(***************************************************************************)
\* The order of the init steps.
InitOrder ==
    <<"initChildChains", "setupOemIptablesHook", "firewallCtrl.setupIptablesHooks",
      "tetherCtrl.setupIptablesHooks", "bandwidthCtrl.setupIptablesHooks",
      "idletimerCtrl.setupIptablesHooks", "strictCtrl.setupIptablesHooks",
      "setupConnmarkIptablesHooks", "bandwidthCtrl.enableBandwidthControl",
      "RouteController::Init", "XfrmController::Init">>

\* The words of a rule that carry a mask.
masksOf(rule) == {rule[6], rule[11], rule[13]}

\* C24: the init steps run in one fixed order, one after the other: chain
\* topology, OEM, firewall, tether, bandwidth, idle-timer and strict hooks,
\* the connmark hooks (two save-mark rules, in connmark_mangle_INPUT and
\* connmark_mangle_OUTPUT, all masks 0x000FFFFF), bandwidth control enable,
\* route controller init with LOCAL_NET_ID, transform controller init.
C24_InitOrder ==
    /\ Len(initCalls) <= Len(InitOrder)
    /\ \A i \in DOMAIN initCalls :
          /\ initCalls[i].fn = InitOrder[i]
          /\ initCalls[i].fn = "setupConnmarkIptablesHooks" =>
                /\ Len(initCalls[i].command) = 2
                /\ initCalls[i].command[1][2] = "connmark_mangle_INPUT"
                /\ initCalls[i].command[2][2] = "connmark_mangle_OUTPUT"
                /\ \A r \in Range(initCalls[i].command) :
                      /\ r[1] = "-A" /\ r[8] = "CONNMARK" /\ r[9] = "--save-mark"
                      /\ masksOf(r) = {"0/0x000FFFFF", "0x000FFFFF"}
          /\ initCalls[i].fn = "RouteController::Init" => initCalls[i].localNetId = LOCAL_NET_ID
    /\ pc \notin {"done", "exited"} => pc = InitOrder[Len(initCalls) + 1]
    /\ pc = "done" => Len(initCalls) = Len(InitOrder)

\* Init ran to its end.
C24_Witness == pc = "done" /\ Len(initCalls) = Len(InitOrder) /\ exitStatus = <<>>

\* The exit code the init sequence has for a failure of the call.
fatalCode(fn) ==
    CASE fn = "bandwidthCtrl.enableBandwidthControl" -> <<1>>
      [] fn = "RouteController::Init" -> <<2>>
      [] fn = "XfrmController::Init" -> <<3>>
      [] OTHER -> <<>>

\* C25: a failure of enabling bandwidth control exits with code 1, of route
\* controller init with code 2, of transform controller init with code 3,
\* and no init step runs after the failing one.
C25_ExitCodes ==
    \A i \in DOMAIN initCalls :
       (fatalCode(initCalls[i].fn) # <<>> /\ initCalls[i].ret # OK) =>
          /\ exitStatus = fatalCode(initCalls[i].fn)
          /\ i = Len(initCalls)
          /\ pc = "exited"
          /\ ~ENABLED NextSequence

\* Route controller init failed after bandwidth control was enabled.
C25_Witness ==
    /\ exitStatus = <<2>>
    /\ initCalls[Len(initCalls)].fn = "RouteController::Init"
    /\ initCalls[Len(initCalls)].ret # OK

\* C26: when an init step fails, the chain topology, a hook installation and
\* the connmark hooks included, the process terminates and no later step runs.
C26_AnyFailureFatal ==
    \A i \in DOMAIN initCalls :
       initCalls[i].ret # OK => (i = Len(initCalls) /\ pc = "exited" /\ exitStatus # <<>>)

(***************************************************************************)
(* Further properties of the registry.                                     *)
(***************************************************************************)
\* The Virtual networks that apply to the uid.
vpnsFor(uid) ==
    {v \in DOMAIN mNetworks : mNetworks[v].type = "Virtual" /\
                              \E r \in mNetworks[v].uidRanges : r[2] <= uid /\ uid <= r[3]}

\* C28: in every reachable registry state at most one Virtual network
\* applies to a uid.  (SpecAccess)
C28_OneVpnPerUid == \A uid \in UidArgs : Cardinality(vpnsFor(uid)) <= 1

C29_AddInterfaceStep ==
    last'.op = "addInterfaceToNetwork" =>
       \A netId \in NetIdArgs, iface \in Ifaces, k \in KernelResults :
          addInterfaceToNetwork(netId, iface, k) =>
             IF last'.ret = OK /\ netId # LOCAL_NET_ID
             THEN /\ DOMAIN mIfindexToLastNetId' = DOMAIN mIfindexToLastNetId \cup {iface}
                  /\ mIfindexToLastNetId'[iface] = netId
                  /\ \A i \in DOMAIN mIfindexToLastNetId \ {iface} :
                        mIfindexToLastNetId'[i] = mIfindexToLastNetId[i]
             ELSE mIfindexToLastNetId' = mIfindexToLastNetId

\* C29: no mIfindexToLastNetId entry has the value LOCAL_NET_ID:
\* addInterfaceToNetwork records ifindex -> n only when n is not the local
\* network, and an interface added to the local network leaves the map
\* unchanged.  (Spec)
C29_LocalNeverRecorded ==
    /\ [](\A i \in DOMAIN mIfindexToLastNetId : mIfindexToLastNetId[i] # LOCAL_NET_ID)
    /\ [][C29_AddInterfaceStep]_vars

\* An interface was added to the local network and the map has no entry.
C29_Witness ==
    /\ last = [op |-> "addInterfaceToNetwork", ret |-> OK]
    /\ mNetworks[LOCAL_NET_ID].interfaces # {}
    /\ mIfindexToLastNetId = << >>

\* The network that holds the interface; NETID_UNSET when none does.
holderOf(iface) ==
    IF \E n \in DOMAIN mNetworks : iface \in mNetworks[n].interfaces
    THEN CHOOSE n \in DOMAIN mNetworks : iface \in mNetworks[n].interfaces
    ELSE NETID_UNSET

userPermission(uid) ==
    IF uid \in DOMAIN mUsers THEN mUsers[uid]
    ELSE IF uid < FIRST_APPLICATION_UID THEN PERMISSION_SYSTEM ELSE PERMISSION_NONE

\* C30: a route call is forwarded to the route controller only when n is in
\* the registry and iface belongs to n; otherwise nothing is forwarded and
\* the result is -ENONET when n is absent, -ENODEV when iface belongs to no
\* network, -ENOENT when it belongs to another one.  When forwarded, the
\* table is LOCAL for the local network, else LEGACY_SYSTEM if legacy and the
\* uid has SYSTEM permission, else LEGACY_NETWORK if legacy, else INTERFACE.
\* The registry is unchanged in every case.  (SpecRoute)
C30_RouteStep ==
    last'.op = "modifyRoute" =>
       /\ registry' = registry
       /\ IF last'.netId \notin DOMAIN mNetworks
          THEN last'.forwarded = <<>> /\ last'.ret = ENONET
          ELSE IF holderOf(last'.iface) = NETID_UNSET
          THEN last'.forwarded = <<>> /\ last'.ret = ENODEV
          ELSE IF holderOf(last'.iface) # last'.netId
          THEN last'.forwarded = <<>> /\ last'.ret = ENOENT
          ELSE /\ last'.forwarded # <<>>
               /\ last'.forwarded[2] = last'.iface
               /\ last'.forwarded[3] =
                     IF last'.netId = LOCAL_NET_ID THEN "LOCAL_NETWORK"
                     ELSE IF last'.legacy /\ userPermission(last'.uid) = PERMISSION_SYSTEM
                     THEN "LEGACY_SYSTEM"
                     ELSE IF last'.legacy THEN "LEGACY_NETWORK"
                     ELSE "INTERFACE"

C30_RoutesForwarded == [][C30_RouteStep]_vars

\* A legacy route of a uid without SYSTEM permission was forwarded while
\* another network holds no interface.
C30_Witness ==
    /\ last.op = "modifyRoute"
    /\ last.forwarded # <<>>
    /\ last.forwarded[3] = "LEGACY_NETWORK"
    /\ last.netId # LOCAL_NET_ID
    /\ mNetworks[LOCAL_NET_ID].interfaces = {}

C31_AddBeforeRemove ==
    threads # <<>> /\ threads[Caller].op = "setDefaultNetwork"
       => LET t == threads[Caller]
              n == t.netId
              p == entryDefault(Caller)
          IN  /\ n # NETID_UNSET /\ p # NETID_UNSET /\ n # p
                    => /\ \E m \in DOMAIN mNetworks : mNetworks[m].isDefault
                       /\ \A i \in DOMAIN t.calls :
                             t.calls[i].call = "removeAsDefault"
                                => /\ t.calls[i].netId = p
                                   /\ \E j \in 1 .. (i - 1) :
                                         t.calls[j] = [call |-> "addAsDefault", netId |-> n]
              /\ n = p
                    => /\ t.calls = <<>>
                       /\ t.pc = "return"
                       /\ last = [op |-> "setDefaultNetwork", ret |-> OK]
                       /\ <<registry, tcpSocketMonitor>> = t.expected

\* A switch from network 100 to network 101 that made both calls and returned 0.
C31_Witness ==
    /\ threads # <<>>
    /\ standsAt(Caller, "setDefaultNetwork", "return")
    /\ entryDefault(Caller) = MIN_NET_ID
    /\ mDefaultNetId = MIN_NET_ID + 1
    /\ threads[Caller].calls = <<[call |-> "addAsDefault", netId |-> MIN_NET_ID + 1],
                                 [call |-> "removeAsDefault", netId |-> MIN_NET_ID]>>

\* The routes (n, interface, permission of the default network) of every
\* interface of the default network, asked for with op, in the present state.
fallthroughsOfDefault(op, n) ==
    IF mDefaultNetId = NETID_UNSET THEN {}
    ELSE {[op |-> op, netId |-> n, iface |-> i,
           permission |-> mNetworks[mDefaultNetId].permission] :
             i \in mNetworks[mDefaultNetId].interfaces}

\* The routes the calls asked for.
callsMade(calls) ==
    {[op |-> calls[i].op, netId |-> calls[i].netId, iface |-> calls[i].iface,
      permission |-> calls[i].permission] : i \in DOMAIN calls}

\* createVirtualNetwork(n, ...) that passes its checks: every fallthrough
\* route of the default network is installed and then n inserted, or an
\* installation failed, its error is returned and n is not inserted; nothing
\* is installed with no default network.
C32_CreateStep ==
    last'.op = "createVirtualNetwork" /\ "calls" \in DOMAIN last' /\
    createVirtualNetworkCheck(last'.netId, last'.vpnType) = OK
       => LET calls == last'.calls
              n == last'.netId
          IN  /\ mDefaultNetId = NETID_UNSET => calls = <<>> /\ last'.ret = OK
              /\ \A i \in DOMAIN calls : calls[i].op = "addVirtualNetworkFallthrough"
              /\ callsMade(calls) \subseteq
                    fallthroughsOfDefault("addVirtualNetworkFallthrough", n)
              /\ IF \E i \in DOMAIN calls : calls[i].ret # OK
                 THEN /\ last'.ret = calls[Len(calls)].ret /\ last'.ret # OK
                      /\ n \notin DOMAIN mNetworks'
                 ELSE /\ last'.ret = OK
                      /\ callsMade(calls) =
                            fallthroughsOfDefault("addVirtualNetworkFallthrough", n)
                      /\ n \in DOMAIN mNetworks' /\ isVirtual(mNetworks'[n])

\* destroyNetwork of a Virtual network n: the removal of the fallthrough
\* route of n is asked for every interface of the default network, and n is
\* erased.
C32_DestroyStep ==
    last'.op = "destroyNetwork" /\ "calls" \in DOMAIN last' /\
    destroyNetworkCheck(last'.netId) = OK /\ isVirtual(mNetworks[last'.netId])
       => /\ callsMade(last'.calls) =
                fallthroughsOfDefault("removeVirtualNetworkFallthrough", last'.netId)
          /\ last'.netId \notin DOMAIN mNetworks'

\* C32: createVirtualNetwork installs the fallthrough routes of the default
\* network's interfaces before it inserts n and inserts nothing when one
\* fails; destroyNetwork of a Virtual network removes the fallthrough routes
\* of n from every interface of the default network before n is erased.
C32_FallthroughRoutes == [][C32_CreateStep /\ C32_DestroyStep]_vars

\* C33: no thread asks for the registry lock while it holds it: a thread is
\* inside at most one function that declares the lock, the delegate callbacks
\* run only on a thread that holds the write lock, no thread waits for
\* itself, and a thread in no call holds no lock.
C33_NoReentry ==
    \A t \in DOMAIN threads :
        "stack" \in DOMAIN threads[t]
           => LET stack == threads[t].stack
              IN  /\ threads[t].pc # "selfDeadlock"
                  /\ Cardinality({i \in DOMAIN stack : lockOf(stack[i]) # "none"}) <= 1
                  /\ (\E i \in DOMAIN stack : stack[i] \in DelegateCallbacks)
                        => mRWLock.writer = t
                  /\ stack = <<>> => ~holdsLock(t)
                  /\ (\E i \in DOMAIN stack : lockOf(stack[i]) # "none") => holdsLock(t)

\* A delegate callback running below a mutator while another thread is
\* outside the registry, having returned from its own call or waiting.
C33_Witness ==
    \E t \in DOMAIN threads :
        /\ "stack" \in DOMAIN threads[t]
        /\ Len(threads[t].stack) >= 4
        /\ threads[t].stack[1] = "addInterfaceToNetwork"
        /\ threads[t].stack[Len(threads[t].stack)] = "DelegateImpl::modifyFallthrough"
        /\ threads[t].stack[3] \in DelegateCallbacks
        /\ mRWLock.writer = t

\* The methods of the registry the request handlers call.
RequestOps == {"addInterfaceAddress", "getNetworkContext", "checkUserNetworkAccess",
               "createPhysicalNetwork", "destroyNetwork"}

\* A step in which a request handler calls the registry.
C34_RequestStep ==
    last' # last /\ last'.op \in RequestOps => ControllersInitReturned

\* C34: Controllers::init has returned before the resolver callbacks are
\* registered, the fwmark server listens and the binder service is started,
\* and no call of a request handler into the registry is made while the
\* chain topology or any other step of Controllers::init runs.
C34_InitBeforeRequests ==
    /\ [](\A l \in DOMAIN threads :
             threads[l] = "started" => ControllersInitReturned \/ pc = "exited")
    /\ [](pc \in Range(InitOrder) => \A l \in DOMAIN threads : threads[l] = "notStarted")
    /\ [][C34_RequestStep]_vars

\* The binder service has created a network and the resolver asks for a context.
C34_Witness ==
    /\ last.op = "getNetworkContext"
    /\ MIN_NET_ID \in DOMAIN mNetworks
    /\ \A l \in Listeners : threads[l] = "started"
    /\ Len(initCalls) = Len(InitOrder)

\* C35: the dns_netid of a getNetworkContext result is NETID_UNSET or the
\* netId of a network the registry holds at the call, whatever netId and uid
\* the request names.
C35_DnsNetIdExists ==
    last.op = "getNetworkContext"
       => last.nc.dns_netid = NETID_UNSET \/ last.nc.dns_netid \in DOMAIN mNetworks

\* A request naming a netId that was destroyed is answered with the default network.
C35_Witness ==
    /\ last.op = "getNetworkContext"
    /\ last.netId \in UserNetIds
    /\ last.netId \notin DOMAIN mNetworks
    /\ last.nc.dns_netid \in UserNetIds
    /\ last.nc.dns_netid = mDefaultNetId

\* The grant of (uid, netId) stands in the caller's record: allowProtect made
\* it, destroyNetwork(netId) and then createPhysicalNetwork(netId) succeeded
\* after that, and the caller called neither denyProtect(uid, netId) nor
\* allowProtect(uid, netId) after the grant.
grantOutlived(uid, netId) ==
    LET seen == threads[Caller].seen
    IN  \E i, j, k \in DOMAIN seen :
           /\ i < j /\ j < k
           /\ seen[i] = <<"allowProtect", uid, netId, OK>>
           /\ seen[j] = <<"destroyNetwork", netId, OK>>
           /\ seen[k] = <<"createPhysicalNetwork", netId, OK>>
           /\ \A m \in DOMAIN seen :
                 m > i => /\ seen[m][1] \notin {"allowProtect", "denyProtect"}
                          \/ seen[m][2] # uid \/ seen[m][3] # netId

C36_DestroyStep ==
    last'.op = "destroyNetwork"
       => UNCHANGED <<mUsers, mProtectableUsers, mAddressToIfindices>>

\* C36: destroyNetwork leaves mUsers, mProtectableUsers and mAddressToIfindices
\* as they were, whatever it returns; and canProtect(uid, n) is true for a uid
\* whose grant for n was made before n was destroyed and created again, with no
\* allowProtect or denyProtect of that pair since.
C36_GrantOutlivesNetwork ==
    /\ [](last.op = "canProtect" /\ grantOutlived(last.uid, last.netId) => last.ret)
    /\ [][C36_DestroyStep]_vars

\* An application without the system permission and without a wildcard grant
\* may protect on a network re-created under the netId of its grant, with a
\* permission and an address on record.
C36_Witness ==
    /\ last.op = "canProtect"
    /\ last.ret
    /\ grantOutlived(last.uid, last.netId)
    /\ <<last.uid, NETID_UNSET>> \notin mProtectableUsers
    /\ BitAnd(getPermissionForUserLocked(last.uid), PERMISSION_SYSTEM) # PERMISSION_SYSTEM
    /\ last.uid \in DOMAIN mUsers
    /\ mAddressToIfindices # << >>


C37_RemoveStep ==
    last'.op = "removeInterfaceAddress"
       => UNCHANGED <<mNetworks, mDefaultNetId, mUsers, mProtectableUsers, mIfindexToLastNetId>>

\* C37: removeInterfaceAddress writes mAddressToIfindices only: mNetworks,
\* mDefaultNetId, mUsers, mProtectableUsers and mIfindexToLastNetId are after
\* the call what they were before it, whatever it returns.
C37_OnlyAddressesChange == [][C37_RemoveStep]_vars

\* Two allocator calls that ran at the same time and both returned 0.
bothSucceeded(t, u) ==
    /\ t # u
    /\ threads[t].op = "createPhysicalOemNetwork" /\ threads[t].pc = "returned"
    /\ threads[u].op = "createPhysicalOemNetwork" /\ threads[u].pc = "returned"
    /\ threads[t].ret = OK /\ threads[u].ret = OK
    /\ overlapped(t, u)

C38_InsertStep ==
    \A t \in Threads :
       threads[t].op \in Allocators /\ threads[t].pc = "insert" /\ threads'[t].pc = "return"
          => threads[t].netId \notin DOMAIN mNetworks

\* C38: two createPhysicalOemNetwork calls that run at the same time never both
\* return 0 with the same netId; no insertion of the allocator or of a
\* createPhysicalNetwork on an OEM id replaces a network the registry holds;
\* and a call is the lock's writer from its scan to its return.
C38_AllocatorExclusive ==
    /\ [](\A t, u \in Threads : bothSucceeded(t, u) => threads[t].netId # threads[u].netId)
    /\ [](\A t \in Threads :
             threads[t].op \in Allocators /\ threads[t].pc \in {"scan", "check", "insert", "return"}
                => mRWLock.writer = t /\ mRWLock.readers = {})
    /\ [][C38_InsertStep]_vars

\* Two allocator calls that ran at the same time were given different ids.
C38_Witness ==
    \E t, u \in Threads :
       /\ bothSucceeded(t, u)
       /\ threads[t].netId # threads[u].netId
       /\ {threads[t].netId, threads[u].netId} \subseteq DOMAIN mNetworks

\* mNetworks with permission given to the networks of the first n entries of
\* netIds and every other network as it is.
withPermission(permission, netIds, n) ==
    [m \in DOMAIN mNetworks |->
        IF \E i \in 1 .. n : netIds[i] = m
        THEN [mNetworks[m] EXCEPT !.permission = permission]
        ELSE mNetworks[m]]

\* The entries before position p are Physical networks of the registry.
physicalBefore(netIds, p) ==
    \A i \in 1 .. (p - 1) : netIds[i] \in DOMAIN mNetworks /\ isPhysical(mNetworks[netIds[i]])

\* The error position p of the list stands for: absent, not Physical, or a
\* setPermission that failed.
stoppedAt(netIds, p, ret) ==
    IF netIds[p] \notin DOMAIN mNetworks THEN ret = ENONET
    ELSE IF ~isPhysical(mNetworks[netIds[p]]) THEN ret = EINVAL
    ELSE ret \in KernelErrs

C39_PermissionStep ==
    last'.op = "setPermissionForNetworks" =>
       LET netIds == last'.netIds
           perm == last'.permission
       IN  IF last'.ret = OK
           THEN /\ physicalBefore(netIds, Len(netIds) + 1)
                /\ mNetworks' = withPermission(perm, netIds, Len(netIds))
                /\ \A i \in DOMAIN netIds : mNetworks'[netIds[i]].permission = perm
           ELSE \E p \in DOMAIN netIds :
                   /\ physicalBefore(netIds, p)
                   /\ stoppedAt(netIds, p, last'.ret)
                   /\ mNetworks' = withPermission(perm, netIds, p - 1)

\* C39: setPermissionForNetworks(perm, netIds) goes through the list in order
\* and stops at the first entry that is absent (-ENONET), not Physical
\* (-EINVAL) or whose setPermission fails (its error): the networks of the
\* entries before it have perm, no other network is changed (an entry from
\* that position on is as the entries before it left it), and that error is
\* returned; with no such entry every listed network has perm and 0 is returned.
C39_StopsAtFirstFailure == [][C39_PermissionStep]_vars

\* A call that stopped at its second entry: the first network was given the
\* new permission and the call returned the error.
C39_Witness ==
    /\ last.op = "setPermissionForNetworks"
    /\ last.ret # OK
    /\ Len(last.netIds) = MaxListLen
    /\ last.netIds[1] # last.netIds[MaxListLen]
    /\ last.netIds[1] \in UserNetIds \cap DOMAIN mNetworks
    /\ mNetworks[last.netIds[1]].permission = last.permission
    /\ last.permission # PERMISSION_NONE
    /\ last.netIds[MaxListLen] \in DOMAIN mNetworks
    /\ isPhysical(mNetworks[last.netIds[MaxListLen]])
    /\ mNetworks[last.netIds[MaxListLen]].permission # last.permission

\* The links of the children of childChains from the i-th on, in order.
RECURSIVE linksOf(_, _, _)
linksOf(parentChain, childChains, i) ==
    IF i > Len(childChains) THEN <<>>
    ELSE <<CHILD_CHAIN_TEMPLATE(parentChain, childChains[i])>>
         \o linksOf(parentChain, childChains, i + 1)

C40_FailedListingStep ==
    (last'.op = "createChildChains" /\ ~last'.exclusive /\ last'.listing # OK) =>
       LET parentChain == last'.parentChain
           command == last'.command
           before == iptables.chains[parentChain]
       IN  /\ findExistingChildChains(parentChain, last'.listing) = {}
           /\ installs' = installs + 1
           /\ \A c \in Range(last'.childChains) :
                 /\ timesIn(command, <<":", c, "-">>) = 1
                 /\ timesIn(command, CHILD_CHAIN_TEMPLATE(parentChain, c)) = 1
           /\ Len(command) = 2 * Len(last'.childChains)
           /\ last'.exec = OK =>
                 iptables'.chains[parentChain] =
                    before \o linksOf(parentChain, last'.childChains, 1)

=============================================================================
